---- MODULE Spec2Model ----
(***************************************************************************)
(* Model of the PypeIt development-suite test runner                       *)
(* (test_scripts/pypeit_test.py): the shared priority queue of test        *)
(* setups, the pool of worker threads running thread_target, the           *)
(* lock-guarded TestReport counters, the run methods of the test steps     *)
(* and the tail of main that starts the workers, joins them and returns    *)
(* the number of failed tests.                                             *)
(***************************************************************************)
EXTENDS Integers, Sequences, FiniteSets, TLC

(* ------------------------------------------------------------------ *)
(* Bounds of the model                                                *)
(* ------------------------------------------------------------------ *)
\* pargs.threads: the number of worker threads main starts
NThreads == 2
\* the number of test setups main puts on the queue
NSetups == 3
\* the longest list of tests a setup is given
MaxSteps == 3

Threads == 1..NThreads
Setups == 1..NSetups

(* ------------------------------------------------------------------ *)
(* TestLength (IntEnum): lower numbers are dequeued first             *)
(* ------------------------------------------------------------------ *)
SHORT == 90
MEDIUM == 80
LONG == 70
VERY_LONG == 60
EXTREMELY_LONG == 50
DEFAULT == 90

TestLength == {SHORT, MEDIUM, LONG, VERY_LONG, EXTREMELY_LONG, DEFAULT}

\* The classes of test step whose run differs: PypeItSetupTest overrides run,
\* PypeItSensFuncTest overrides run, every other subclass inherits PypeItTest.run.
StepKinds == {"setup", "sens", "plain"}

VARIABLES
    length,            \* TestSetup.length, per setup
    tests,             \* TestSetup.tests: the class of each step, per setup
    pyp_file,          \* TestSetup.pyp_file: "None", "template" or "generated"
    rdxdir,            \* TestSetup.rdxdir: "out" or "out_A"
    steps,             \* per setup, per step: the result fields of the PypeItTest
    test_run_queue,    \* the heap array of the PriorityQueue (setup ids)
    unfinished_tasks,  \* the queue's count of items put and not yet task_done
    num_tests, num_active, num_passed, num_failed, num_skipped,
    failed_tests, skipped_tests,
    lock,              \* TestReport.lock: TRUE when held
    testing_complete,  \* TestReport.testing_complete
    pc,                \* per worker thread: position in thread_target
    cur,               \* per worker: test_setup (0 when none)
    idx,               \* per worker: position of the for loop in test_setup.tests
    passed,            \* per worker: the local variable passed of thread_target
    tmp,               \* per worker: the value loaded by a += before it is stored
    mpc,               \* main: position
    nstarted,          \* main: threads started so far
    end_time,          \* TestReport.end_time set
    exit_code,         \* the value main returns (-1 before it returns)
    hist,              \* history: per step, the calls made for it, in order
    dequeued,          \* history: the setups in the order get returned them
    takes              \* history: per setup, how many times get returned it

\* main's choice of the tests and build_test_setup (test_scripts/pypeit_test.py)
VARIABLES
    pargs,             \* the parsed command line: tests, prep_only, masters
    flg_after,         \* main: only the afterburner tests
    flg_ql,            \* main: only the quick-look tests
    setup,             \* the TestSetup being built: instr, name, pyp_file,
                       \* std_pyp_file, tests (the class of each test appended)
    bpc,               \* position in main / build_test_setup
    templates          \* the template files of the setup that exist: "pypeit", "std"

\* get_unique_file and the files it looks at (test_scripts/pypeit_test.py)
VARIABLES
    fs,                \* the paths at which a file exists
    file,              \* the argument of get_unique_file
    calls,             \* history: per call, the paths that existed and the result
    upc                \* the caller: about to call, or about to create the file

\* the Telluric engine (dev_algorithms/sensfunc/telluric.py)
VARIABLES
    inst,              \* which construction of the engine this is (1 or 2)
    phase,             \* position of the driver / of the method running
    seed,              \* Telluric.__init__ argument seed (NoSeed for None)
    only_orders,       \* the argument of run: None, an int or a list
    tell_dict,         \* tell_grid: the 4-d grid of transmission spectra
    ind_lower,         \* per order: first grid index with data
    ind_upper,         \* per order: last grid index with data
    seed_vec,          \* per order: the seed for the optimizer
    srt_order_tell,    \* the orders sorted by telluric strength
    counter,           \* position of the loop over srt_order_tell
    arg_dict_list,     \* per order: None or the arguments of the fit
    good_orders,       \* run: the orders to fit
    result_list,       \* per order: None or the result of the optimizer
    theta_obj_list,    \* per order: None or result.x[:-6]
    theta_tell_list,   \* per order: None or result.x[-6:]
    obj_model_list,    \* per order: None or the object model
    tellmodel_list,    \* per order: None or the telluric model
    meta_table,        \* None or the one-row table of parameters
    out_table,         \* per order: the row of the output table
    outfile,           \* None or the tables as written by save
    prev_seed_vec,     \* history: seed_vec of the first construction, kept until
                       \* the second has drawn its own
    seeds_agree,       \* history: "same" or "different" once the second
                       \* construction has drawn its seed_vec
    init_visits,       \* history: the orders in the order __init__ visited them
    run_visits,        \* history: the orders in the order run fitted them
    writes             \* history: per order, the calls of assign_output

\* calls of the functions of dev_algorithms (sensfunc/telluric.py, arcs2d)
VARIABLES
    call,              \* the function called and its arguments
    ret,               \* what the call returned or raised
    gpc                \* "called" before the function runs, "returned" after it

\* PypeItTest.run step by step: the log file and the child process (test_scripts/pypeit_test.py)
VARIABLES
    disk,              \* the paths at which a file exists
    todo,              \* test_run_queue: the setups no thread has taken yet
    outdir,            \* per setup: TestSetup.rdxdir
    job,               \* per test: logfile, child, the terminate calls, passed
    worker,            \* per thread: position, setup, test, local passed, the
                       \* exception in flight
    truncated          \* history: the paths opened for writing over a file

runnerVars == <<length, tests, pyp_file, rdxdir, steps, test_run_queue, unfinished_tasks,
          num_tests, num_active, num_passed, num_failed, num_skipped,
          failed_tests, skipped_tests, lock, testing_complete,
          pc, cur, idx, passed, tmp, mpc, nstarted, end_time, exit_code,
          hist, dequeued, takes>>

buildVars == <<pargs, flg_after, flg_ql, setup, bpc, templates>>

uniqueVars == <<fs, file, calls, upc>>

engineVars == <<inst, phase, seed, only_orders, tell_dict, ind_lower, ind_upper, seed_vec, srt_order_tell, counter, arg_dict_list, good_orders, result_list, theta_obj_list, theta_tell_list, obj_model_list, tellmodel_list, meta_table, out_table, outfile, prev_seed_vec, seeds_agree, init_visits, run_visits, writes>>

gridVars == <<call, ret, gpc>>

stepVars == <<disk, todo, outdir, job, worker, truncated>>

\* Everything but the test runner's threads and queue
libVars == <<buildVars, uniqueVars, engineVars, gridVars, stepVars>>

vars == <<runnerVars, libVars>>

\* What the steps of one part leave alone: the variables of the other parts
otherThanBuild == <<runnerVars, uniqueVars, engineVars, gridVars, stepVars>>
otherThanUnique == <<runnerVars, buildVars, engineVars, gridVars, stepVars>>
otherThanEngine == <<runnerVars, buildVars, uniqueVars, gridVars, stepVars>>
otherThanGrid == <<runnerVars, buildVars, uniqueVars, engineVars, stepVars>>
otherThanStep == <<runnerVars, buildVars, uniqueVars, engineVars, gridVars>>

\* What no step of the runner changes: the setups as built, and the state of
\* everything but the runner
setupVars == <<length, tests, libVars>>
counterVars == <<num_tests, num_active, num_passed, num_failed, num_skipped,
                 failed_tests, skipped_tests>>
mainVars == <<mpc, nstarted, end_time, exit_code>>

(* ------------------------------------------------------------------ *)
(* TestSetup.__lt__ and the heap of queue.PriorityQueue (heapq)       *)
(* ------------------------------------------------------------------ *)
SetupLtReversed(a, b) == length[a] > length[b]

\* TestSetup.__lt__
SetupLt(a, b) == length[a] < length[b]

\* 0-based access to the heap array
At(h, i) == h[i + 1]
Put(h, i, x) == [h EXCEPT ![i + 1] = x]

RECURSIVE SiftDownLoop(_, _, _, _)
SiftDownLoop(h, startpos, pos, newitem) ==
    IF pos > startpos
    THEN LET parentpos == (pos - 1) \div 2
             parent == At(h, parentpos)
         IN  IF SetupLt(newitem, parent)
             THEN SiftDownLoop(Put(h, pos, parent), startpos, parentpos, newitem)
             ELSE Put(h, pos, newitem)
    ELSE Put(h, pos, newitem)

\* heapq._siftdown
siftdown(h, startpos, pos) == SiftDownLoop(h, startpos, pos, At(h, pos))

\* heapq.heappush, as PriorityQueue.put does it
heappush(h, item) == siftdown(Append(h, item), 0, Len(h))

RECURSIVE SiftUpLoop(_, _, _)
SiftUpLoop(h, pos, endpos) ==
    LET childpos == 2 * pos + 1
        rightpos == childpos + 1
    IN  IF childpos < endpos
        THEN LET c == IF rightpos < endpos /\ ~SetupLt(At(h, childpos), At(h, rightpos))
                      THEN rightpos ELSE childpos
             IN  SiftUpLoop(Put(h, pos, At(h, c)), c, endpos)
        ELSE <<h, pos>>

\* heapq._siftup
siftup(h, pos) ==
    LET newitem == At(h, pos)
        r == SiftUpLoop(h, pos, Len(h))
    IN  siftdown(Put(r[1], r[2], newitem), pos, r[2])

\* heapq.heappop, as PriorityQueue.get does it: <<item returned, heap left>>
heappop(h) ==
    LET lastelt == h[Len(h)]
        rest == SubSeq(h, 1, Len(h) - 1)
    IN  IF rest # <<>>
        THEN <<rest[1], siftup(Put(rest, 0, lastelt), 0)>>
        ELSE <<lastelt, rest>>

RECURSIVE PutAll(_, _)
\* main's loop over setup_names: test_run_queue.put(setup), in insertion order
PutAll(h, n) == IF n > NSetups THEN h ELSE PutAll(heappush(h, n), n + 1)

(* ------------------------------------------------------------------ *)
(* Initial state: the setups are built and queued, the TestReport is  *)
(* constructed, no thread is started                                  *)
(* ------------------------------------------------------------------ *)
\* PypeItTest.__init__
NewTest == [passed |-> "None", command_line |-> FALSE, error_msgs |-> 0,
            logfile |-> FALSE, pid |-> FALSE, start_time |-> FALSE,
            end_time |-> FALSE, returncode |-> -1, found |-> -1]

\* The classes of the tests build_test_setup appends, in order, for three kinds of
\* setup: shane_kast_blue with "600" in the name (pypeit_setup, run_pypeit,
\* pypeit_sensfunc, ...), gemini_gnirs/32_SB_SXD in an afterburn run
\* (pypeit_sensfunc, pypeit_flux_setup, pypeit_flux_calib, ...) and a setup with
\* reductions only (run_pypeit, standards, with masters). Setup s is of kind
\* s modulo 3.
FullList(s) ==
    CASE s % 3 = 1 -> [k \in 1..MaxSteps |->
                        IF k = 1 THEN "setup" ELSE IF k = 3 THEN "sens" ELSE "plain"]
      [] s % 3 = 2 -> [k \in 1..MaxSteps |-> IF k = 1 THEN "sens" ELSE "plain"]
      [] OTHER -> [k \in 1..MaxSteps |-> "plain"]

\* The first n tests of setup s
TestList(s, n) == SubSeq(FullList(s), 1, n)

RECURSIVE Sum(_, _)
Sum(f, n) == IF n = 0 THEN 0 ELSE f[n] + Sum(f, n - 1)

\* The runner before main has built a setup or started a thread
RunnerOff ==
    /\ length = [s \in Setups |-> DEFAULT]
    /\ tests = [s \in Setups |-> <<>>]
    /\ pyp_file = [s \in Setups |-> "template"]
    /\ rdxdir = [s \in Setups |-> "out"]
    /\ steps = [s \in Setups |-> <<>>]
    /\ test_run_queue = <<>>
    /\ unfinished_tasks = 0
    /\ num_tests = 0 /\ num_active = 0 /\ num_passed = 0
    /\ num_failed = 0 /\ num_skipped = 0
    /\ failed_tests = <<>> /\ skipped_tests = <<>>
    /\ lock = FALSE
    /\ testing_complete = FALSE
    /\ pc = [w \in Threads |-> "unstarted"]
    /\ cur = [w \in Threads |-> 0]
    /\ idx = [w \in Threads |-> 0]
    /\ passed = [w \in Threads |-> "True"]
    /\ tmp = [w \in Threads |-> 0]
    /\ mpc = "start"
    /\ nstarted = 0
    /\ end_time = FALSE
    /\ exit_code = -1
    /\ hist = [s \in Setups |-> <<>>]
    /\ dequeued = <<>>
    /\ takes = [s \in Setups |-> 0]

\* No setup is being built: the setups of the runner are given by tests and length
BuildOff ==
    /\ pargs = [tests |-> "develop", prep_only |-> FALSE, masters |-> FALSE]
    /\ flg_after = FALSE
    /\ flg_ql = FALSE
    /\ setup = [instr |-> "", name |-> "", pyp_file |-> "None",
                std_pyp_file |-> "None", tests |-> <<>>]
    /\ bpc = "off"
    /\ templates = {}

UniqueOff ==
    /\ fs = {}
    /\ file = <<"", "">>
    /\ calls = <<>>
    /\ upc = "off"

EngineOff ==
    /\ inst = 0
    /\ phase = "off"
    /\ seed = 0
    /\ only_orders = [kind |-> "None", val |-> <<>>]
    /\ tell_dict = [shape |-> <<>>, tell_grid |-> <<>>]
    /\ ind_lower = <<>> /\ ind_upper = <<>>
    /\ seed_vec = <<>> /\ prev_seed_vec = <<>> /\ seeds_agree = "unknown"
    /\ srt_order_tell = <<>>
    /\ counter = 0
    /\ arg_dict_list = <<>>
    /\ good_orders = <<>>
    /\ result_list = <<>> /\ theta_obj_list = <<>> /\ theta_tell_list = <<>>
    /\ obj_model_list = <<>> /\ tellmodel_list = <<>>
    /\ meta_table = {} /\ out_table = <<>> /\ outfile = {}
    /\ init_visits = <<>> /\ run_visits = <<>>
    /\ writes = <<>>

GridOff ==
    /\ call = [fn |-> "none"]
    /\ ret = [raise |-> "", value |-> <<>>]
    /\ gpc = "off"

StepOff ==
    /\ disk = {}
    /\ todo = <<>>
    /\ outdir = <<>>
    /\ job = <<>>
    /\ worker = <<>>
    /\ truncated = {}

LibraryOff == BuildOff /\ UniqueOff /\ EngineOff /\ GridOff /\ StepOff

\* One part alone: the other parts are not in use
OnlyBuild == RunnerOff /\ UniqueOff /\ EngineOff /\ GridOff /\ StepOff
OnlyUnique == RunnerOff /\ BuildOff /\ EngineOff /\ GridOff /\ StepOff
OnlyEngine == RunnerOff /\ BuildOff /\ UniqueOff /\ GridOff /\ StepOff
OnlyGrid == RunnerOff /\ BuildOff /\ UniqueOff /\ EngineOff /\ StepOff
OnlyStep == RunnerOff /\ BuildOff /\ UniqueOff /\ EngineOff /\ GridOff

\* The runs explored: either the setups differ in length and have no test to run
\* (a ql or afterburn run over setups without such tests), or they have the
\* default length and MaxSteps tests at most between them.
Configurations ==
    {c \in [length : [Setups -> TestLength], count : [Setups -> 0..MaxSteps]] :
        \/ \A s \in Setups : c.count[s] = 0
        \/ /\ \A s \in Setups : c.length[s] = DEFAULT
           /\ Sum(c.count, NSetups) <= MaxSteps}

Init ==
    /\ \E c \in Configurations :
          /\ length = c.length
          /\ tests = [s \in Setups |-> TestList(s, c.count[s])]
    /\ pyp_file = [s \in Setups |->
                     IF Len(tests[s]) > 0 /\ tests[s][1] = "setup" THEN "None" ELSE "template"]
    /\ rdxdir = [s \in Setups |-> "out"]
    /\ steps = [s \in Setups |-> [k \in 1..Len(tests[s]) |-> NewTest]]
    /\ test_run_queue = PutAll(<<>>, 1)
    /\ unfinished_tasks = NSetups
    /\ num_tests = 0 /\ num_active = 0 /\ num_passed = 0
    /\ num_failed = 0 /\ num_skipped = 0
    /\ failed_tests = <<>> /\ skipped_tests = <<>>
    /\ lock = FALSE
    /\ testing_complete = FALSE
    /\ pc = [w \in Threads |-> "unstarted"]
    /\ cur = [w \in Threads |-> 0]
    /\ idx = [w \in Threads |-> 0]
    /\ passed = [w \in Threads |-> "True"]
    /\ tmp = [w \in Threads |-> 0]
    /\ mpc = "start"
    /\ nstarted = 0
    /\ end_time = FALSE
    /\ exit_code = -1
    /\ hist = [s \in Setups |-> [k \in 1..Len(tests[s]) |-> <<>>]]
    /\ dequeued = <<>>
    /\ takes = [s \in Setups |-> 0]
    /\ LibraryOff

(* ------------------------------------------------------------------ *)
(* Helpers of the worker loop                                         *)
(* ------------------------------------------------------------------ *)
\* Lock.acquire without looking at the lock
LockFreeAlways == TRUE

\* "with self.lock:" proceeds only when the lock is not held
LockFree == ~lock

\* The critical sections of test_started, test_skipped and test_completed
InTestStarted == {"ts_load_tests", "ts_store_tests", "ts_load_active", "ts_store_active"}
InTestSkipped == {"sk_load", "sk_store", "sk_append"}
InTestCompleted == {"tc_load_active", "tc_store_active", "tc_branch", "tc_store_passed",
                    "tc_store_failed", "tc_append"}
InReport == InTestStarted \cup InTestSkipped \cup InTestCompleted

\* The for loop of thread_target keeps skipping after a skip
ForPcNoSkip(s, i, p) ==
    IF i > Len(tests[s]) THEN "task_done" ELSE "started"

\* A loop that also skips as soon as any test of the run has failed
ForPcFailFast(s, i, p) ==
    IF i > Len(tests[s]) THEN "task_done"
    ELSE IF p # "True" \/ num_failed > 0 THEN "skipped" ELSE "started"

\* A loop left at the first test that did not pass
ForPcBreak(s, i, p) ==
    IF i > Len(tests[s]) \/ p # "True" THEN "task_done" ELSE "started"

\* A loop that skips only after a run that returned False
ForPcFalseOnly(s, i, p) ==
    IF i > Len(tests[s]) THEN "task_done"
    ELSE IF p = "False" THEN "skipped" ELSE "started"

\* "for test in test_setup.tests: if not passed: ... else: ...": where the loop
\* goes for index i with the local variable passed = p
ForPc(s, i, p) ==
    IF i > Len(tests[s]) THEN "task_done"
    ELSE IF p # "True" THEN "skipped" ELSE "started"

Log(s, k, e) == [hist EXCEPT ![s][k] = Append(@, e)]

(* ------------------------------------------------------------------ *)
(* thread_target                                                      *)
(* ------------------------------------------------------------------ *)
\* while not test_report.testing_complete
While(w) ==
    /\ pc[w] = "while"
    /\ pc' = [pc EXCEPT ![w] = IF testing_complete THEN "exit" ELSE "get"]
    /\ UNCHANGED <<setupVars, pyp_file, rdxdir, steps, test_run_queue, unfinished_tasks,
                   counterVars, lock, testing_complete, cur, idx, passed, tmp,
                   mainVars, hist, dequeued, takes>>

\* PriorityQueue.get returning the first item without removing it
QueueAfterGetKeeps(h) == h

\* what PriorityQueue.get leaves on the queue
QueueAfterGet(h) == heappop(h)[2]

\* test_setup = test_run_queue.get(timeout=2); passed = True
Get(w) ==
    /\ pc[w] = "get"
    /\ test_run_queue # <<>>
    /\ LET s == heappop(test_run_queue)[1] IN
         /\ test_run_queue' = QueueAfterGet(test_run_queue)
         /\ cur' = [cur EXCEPT ![w] = s]
         /\ idx' = [idx EXCEPT ![w] = 1]
         /\ passed' = [passed EXCEPT ![w] = "True"]
         /\ pc' = [pc EXCEPT ![w] = ForPc(s, 1, "True")]
         /\ dequeued' = Append(dequeued, s)
         /\ takes' = [takes EXCEPT ![s] = @ + 1]
    /\ UNCHANGED <<setupVars, pyp_file, rdxdir, steps, unfinished_tasks,
                   counterVars, lock, testing_complete, tmp, mainVars, hist>>

\* except Empty: continue
GetEmpty(w) ==
    /\ pc[w] = "get"
    /\ test_run_queue = <<>>
    /\ pc' = [pc EXCEPT ![w] = "while"]
    /\ UNCHANGED <<setupVars, pyp_file, rdxdir, steps, test_run_queue, unfinished_tasks,
                   counterVars, lock, testing_complete, cur, idx, passed, tmp,
                   mainVars, hist, dequeued, takes>>

\* test_run_queue.task_done(); test_setup, test and passed are dead until the next
\* get overwrites them, and are put back to their initial values here
TaskDone(w) ==
    /\ pc[w] = "task_done"
    /\ unfinished_tasks > 0
    /\ unfinished_tasks' = unfinished_tasks - 1
    /\ pc' = [pc EXCEPT ![w] = "while"]
    /\ cur' = [cur EXCEPT ![w] = 0]
    /\ idx' = [idx EXCEPT ![w] = 0]
    /\ passed' = [passed EXCEPT ![w] = "True"]
    /\ UNCHANGED <<setupVars, pyp_file, rdxdir, steps, test_run_queue,
                   counterVars, lock, testing_complete, tmp,
                   mainVars, hist, dequeued, takes>>

(* ------------------------------------------------------------------ *)
(* TestReport.test_started                                            *)
(* ------------------------------------------------------------------ *)
\* with self.lock:   (the call is logged when it enters)
StartedAcquire(w) ==
    /\ pc[w] = "started"
    /\ LockFree
    /\ lock' = TRUE
    /\ pc' = [pc EXCEPT ![w] = "ts_load_tests"]
    /\ hist' = Log(cur[w], idx[w], "started")
    /\ UNCHANGED <<setupVars, pyp_file, rdxdir, steps, test_run_queue, unfinished_tasks,
                   counterVars, testing_complete, cur, idx, passed, tmp,
                   mainVars, dequeued, takes>>

\* self.num_tests += 1: load
StartedLoadTests(w) ==
    /\ pc[w] = "ts_load_tests"
    /\ tmp' = [tmp EXCEPT ![w] = num_tests]
    /\ pc' = [pc EXCEPT ![w] = "ts_store_tests"]
    /\ UNCHANGED <<setupVars, pyp_file, rdxdir, steps, test_run_queue, unfinished_tasks,
                   counterVars, lock, testing_complete, cur, idx, passed,
                   mainVars, hist, dequeued, takes>>

\* self.num_tests += 1: store
StartedStoreTests(w) ==
    /\ pc[w] = "ts_store_tests"
    /\ num_tests' = tmp[w] + 1
    /\ tmp' = [tmp EXCEPT ![w] = 0]
    /\ pc' = [pc EXCEPT ![w] = "ts_load_active"]
    /\ UNCHANGED <<setupVars, pyp_file, rdxdir, steps, test_run_queue, unfinished_tasks,
                   num_active, num_passed, num_failed, num_skipped, failed_tests,
                   skipped_tests, lock, testing_complete, cur, idx, passed,
                   mainVars, hist, dequeued, takes>>

\* self.num_active += 1: load
StartedLoadActive(w) ==
    /\ pc[w] = "ts_load_active"
    /\ tmp' = [tmp EXCEPT ![w] = num_active]
    /\ pc' = [pc EXCEPT ![w] = "ts_store_active"]
    /\ UNCHANGED <<setupVars, pyp_file, rdxdir, steps, test_run_queue, unfinished_tasks,
                   counterVars, lock, testing_complete, cur, idx, passed,
                   mainVars, hist, dequeued, takes>>

\* self.num_active += 1: store; the status line is printed and the lock released;
\* thread_target goes on to test.run()
StartedStoreActive(w) ==
    /\ pc[w] = "ts_store_active"
    /\ num_active' = tmp[w] + 1
    /\ tmp' = [tmp EXCEPT ![w] = 0]
    /\ lock' = FALSE
    /\ pc' = [pc EXCEPT ![w] = "run"]
    /\ UNCHANGED <<setupVars, pyp_file, rdxdir, steps, test_run_queue, unfinished_tasks,
                   num_tests, num_passed, num_failed, num_skipped, failed_tests,
                   skipped_tests, testing_complete, cur, idx, passed,
                   mainVars, hist, dequeued, takes>>

(* ------------------------------------------------------------------ *)
(* TestReport.test_skipped                                            *)
(* ------------------------------------------------------------------ *)
SkippedAcquire(w) ==
    /\ pc[w] = "skipped"
    /\ LockFree
    /\ lock' = TRUE
    /\ pc' = [pc EXCEPT ![w] = "sk_load"]
    /\ hist' = Log(cur[w], idx[w], "skipped")
    /\ UNCHANGED <<setupVars, pyp_file, rdxdir, steps, test_run_queue, unfinished_tasks,
                   counterVars, testing_complete, cur, idx, passed, tmp,
                   mainVars, dequeued, takes>>

\* self.num_skipped += 1: load
SkippedLoad(w) ==
    /\ pc[w] = "sk_load"
    /\ tmp' = [tmp EXCEPT ![w] = num_skipped]
    /\ pc' = [pc EXCEPT ![w] = "sk_store"]
    /\ UNCHANGED <<setupVars, pyp_file, rdxdir, steps, test_run_queue, unfinished_tasks,
                   counterVars, lock, testing_complete, cur, idx, passed,
                   mainVars, hist, dequeued, takes>>

\* self.num_skipped += 1: store
SkippedStore(w) ==
    /\ pc[w] = "sk_store"
    /\ num_skipped' = tmp[w] + 1
    /\ tmp' = [tmp EXCEPT ![w] = 0]
    /\ pc' = [pc EXCEPT ![w] = "sk_append"]
    /\ UNCHANGED <<setupVars, pyp_file, rdxdir, steps, test_run_queue, unfinished_tasks,
                   num_tests, num_active, num_passed, num_failed, failed_tests,
                   skipped_tests, lock, testing_complete, cur, idx, passed,
                   mainVars, hist, dequeued, takes>>

\* self.skipped_tests.append(test); release; the for loop takes the next test
SkippedAppend(w) ==
    /\ pc[w] = "sk_append"
    /\ skipped_tests' = Append(skipped_tests, <<cur[w], idx[w]>>)
    /\ lock' = FALSE
    /\ idx' = [idx EXCEPT ![w] = @ + 1]
    /\ pc' = [pc EXCEPT ![w] = ForPc(cur[w], idx[w] + 1, passed[w])]
    /\ UNCHANGED <<setupVars, pyp_file, rdxdir, steps, test_run_queue, unfinished_tasks,
                   num_tests, num_active, num_passed, num_failed, num_skipped,
                   failed_tests, testing_complete, cur, passed, tmp,
                   mainVars, hist, dequeued, takes>>

(* ------------------------------------------------------------------ *)
(* TestReport.test_completed                                          *)
(* ------------------------------------------------------------------ *)
CompletedAcquire(w) ==
    /\ pc[w] = "completed"
    /\ LockFree
    /\ lock' = TRUE
    /\ pc' = [pc EXCEPT ![w] = "tc_load_active"]
    /\ hist' = Log(cur[w], idx[w], "completed")
    /\ UNCHANGED <<setupVars, pyp_file, rdxdir, steps, test_run_queue, unfinished_tasks,
                   counterVars, testing_complete, cur, idx, passed, tmp,
                   mainVars, dequeued, takes>>

\* self.num_active -= 1: load
CompletedLoadActive(w) ==
    /\ pc[w] = "tc_load_active"
    /\ tmp' = [tmp EXCEPT ![w] = num_active]
    /\ pc' = [pc EXCEPT ![w] = "tc_store_active"]
    /\ UNCHANGED <<setupVars, pyp_file, rdxdir, steps, test_run_queue, unfinished_tasks,
                   counterVars, lock, testing_complete, cur, idx, passed,
                   mainVars, hist, dequeued, takes>>

\* a test_completed that leaves num_active as it was
CompletedStoreActiveKeeps(w) ==
    /\ pc[w] = "tc_store_active"
    /\ num_active' = tmp[w]
    /\ tmp' = [tmp EXCEPT ![w] = 0]
    /\ pc' = [pc EXCEPT ![w] = "tc_branch"]
    /\ UNCHANGED <<setupVars, pyp_file, rdxdir, steps, test_run_queue, unfinished_tasks,
                   num_tests, num_passed, num_failed, num_skipped, failed_tests,
                   skipped_tests, lock, testing_complete, cur, idx, passed,
                   mainVars, hist, dequeued, takes>>

\* self.num_active -= 1: store
CompletedStoreActive(w) ==
    /\ pc[w] = "tc_store_active"
    /\ num_active' = tmp[w] - 1
    /\ tmp' = [tmp EXCEPT ![w] = 0]
    /\ pc' = [pc EXCEPT ![w] = "tc_branch"]
    /\ UNCHANGED <<setupVars, pyp_file, rdxdir, steps, test_run_queue, unfinished_tasks,
                   num_tests, num_passed, num_failed, num_skipped, failed_tests,
                   skipped_tests, lock, testing_complete, cur, idx, passed,
                   mainVars, hist, dequeued, takes>>

\* a test_completed that counts every test as passed
CompletedTruthAlways(w) == TRUE

\* "if test.passed:" reads the field of the test
CompletedTruth(w) == steps[cur[w]][idx[w]].passed = "True"

\* if test.passed: self.num_passed += 1 (load)  else: self.num_failed += 1 (load)
CompletedBranch(w) ==
    /\ pc[w] = "tc_branch"
    /\ IF CompletedTruth(w)
       THEN /\ tmp' = [tmp EXCEPT ![w] = num_passed]
            /\ pc' = [pc EXCEPT ![w] = "tc_store_passed"]
       ELSE /\ tmp' = [tmp EXCEPT ![w] = num_failed]
            /\ pc' = [pc EXCEPT ![w] = "tc_store_failed"]
    /\ UNCHANGED <<setupVars, pyp_file, rdxdir, steps, test_run_queue, unfinished_tasks,
                   counterVars, lock, testing_complete, cur, idx, passed,
                   mainVars, hist, dequeued, takes>>

\* self.num_passed += 1: store; PASSED is printed, the lock released and the for
\* loop takes the next test
CompletedStorePassed(w) ==
    /\ pc[w] = "tc_store_passed"
    /\ num_passed' = tmp[w] + 1
    /\ tmp' = [tmp EXCEPT ![w] = 0]
    /\ lock' = FALSE
    /\ idx' = [idx EXCEPT ![w] = @ + 1]
    /\ pc' = [pc EXCEPT ![w] = ForPc(cur[w], idx[w] + 1, passed[w])]
    /\ UNCHANGED <<setupVars, pyp_file, rdxdir, steps, test_run_queue, unfinished_tasks,
                   num_tests, num_active, num_failed, num_skipped, failed_tests,
                   skipped_tests, testing_complete, cur, passed,
                   mainVars, hist, dequeued, takes>>

\* self.num_failed += 1: store
CompletedStoreFailed(w) ==
    /\ pc[w] = "tc_store_failed"
    /\ num_failed' = tmp[w] + 1
    /\ tmp' = [tmp EXCEPT ![w] = 0]
    /\ pc' = [pc EXCEPT ![w] = "tc_append"]
    /\ UNCHANGED <<setupVars, pyp_file, rdxdir, steps, test_run_queue, unfinished_tasks,
                   num_tests, num_active, num_passed, num_skipped, failed_tests,
                   skipped_tests, lock, testing_complete, cur, idx, passed,
                   mainVars, hist, dequeued, takes>>

\* self.failed_tests.append(test); FAILED is printed with report_on_test, the lock
\* released and the for loop takes the next test
CompletedAppend(w) ==
    /\ pc[w] = "tc_append"
    /\ failed_tests' = Append(failed_tests, <<cur[w], idx[w]>>)
    /\ lock' = FALSE
    /\ idx' = [idx EXCEPT ![w] = @ + 1]
    /\ pc' = [pc EXCEPT ![w] = ForPc(cur[w], idx[w] + 1, passed[w])]
    /\ UNCHANGED <<setupVars, pyp_file, rdxdir, steps, test_run_queue, unfinished_tasks,
                   num_tests, num_active, num_passed, num_failed, num_skipped,
                   skipped_tests, testing_complete, cur, passed, tmp,
                   mainVars, hist, dequeued, takes>>

(* ------------------------------------------------------------------ *)
(* PypeItTest.run and its overrides                                   *)
(* ------------------------------------------------------------------ *)
\* Where the first part of PypeItTest.run can raise an Exception
LaunchExceptions == {"get_logfile", "build_command_line", "Popen"}

\* An except clause that records the messages and leaves self.passed as it was
CaughtUnset(t) == [t EXCEPT !.error_msgs = @ + 2]

\* except Exception: two messages are appended and the test is marked failed
Caught(t) == [t EXCEPT !.error_msgs = @ + 2, !.passed = "False"]

\* PypeItTest.run up to subprocess.Popen, raising at exc ("none": the child runs)
Launch(t, exc) ==
    CASE exc = "get_logfile" -> Caught(t)
      [] exc = "build_command_line" -> Caught([t EXCEPT !.logfile = TRUE])
      [] exc = "Popen" ->
           Caught([t EXCEPT !.logfile = TRUE, !.command_line = TRUE, !.start_time = TRUE])
      [] OTHER ->
           [t EXCEPT !.logfile = TRUE, !.command_line = TRUE, !.start_time = TRUE,
                     !.pid = TRUE]

\* a run that reports every child as passed
PassedOfAny(rc) == "True"

\* self.passed = (child.returncode == 0)
PassedOf(rc) == IF rc = 0 THEN "True" ELSE "False"

\* PypeItTest.run from child.wait() on, the child exiting with rc
Waited(t, rc) == [t EXCEPT !.end_time = TRUE, !.returncode = rc, !.passed = PassedOf(rc)]

\* PypeItSensFuncTest.run when the standard-star file is missing
SensMissing(t) == [t EXCEPT !.error_msgs = @ + 1, !.passed = "False"]

\* A glob check that records what it found and leaves the test passed
SetupCheckedLenient(t, n) == [t EXCEPT !.found = IF n = 1 THEN 1 ELSE 0]

\* PypeItSetupTest.run after a passing child, glob finding n pypeit files
\* (found: 1 when exactly one was found, 0 otherwise, -1 when glob was not run)
SetupChecked(t, n) ==
    IF n # 1
    THEN [t EXCEPT !.found = 0, !.error_msgs = @ + 1, !.passed = "False"]
    ELSE [t EXCEPT !.found = 1]

\* a store that reaches the field of every setup
SetupStoreShared(f, s, v) == [x \in DOMAIN f |-> v]

\* self.setup.pyp_file = pyp_file, self.setup.rdxdir = rdxdir: the field of the
\* setup the test belongs to
SetupStore(f, s, v) == [f EXCEPT ![s] = v]

\* passed = test.run(): the call, up to the launch of the child process
RunStart(w) ==
    /\ pc[w] = "run"
    /\ LET s == cur[w]
           k == idx[w]
           t == steps[s][k]
       IN
         /\ hist' = Log(s, k, "run")
         /\ \/ \* PypeItSensFuncTest.run: no file, no child, and no return value
               /\ tests[s][k] = "sens"
               /\ steps' = [steps EXCEPT ![s][k] = SensMissing(t)]
               /\ passed' = [passed EXCEPT ![w] = "None"]
               /\ pc' = [pc EXCEPT ![w] = "completed"]
            \/ \* an Exception before the child runs: caught, run returns self.passed
               \E exc \in LaunchExceptions :
                 /\ steps' = [steps EXCEPT ![s][k] = Launch(t, exc)]
                 /\ passed' = [passed EXCEPT ![w] = Launch(t, exc).passed]
                 /\ pc' = [pc EXCEPT ![w] = "completed"]
            \/ \* the child is launched
               /\ steps' = [steps EXCEPT ![s][k] = Launch(t, "none")]
               /\ passed' = passed
               /\ pc' = [pc EXCEPT ![w] = "wait"]
    /\ UNCHANGED <<setupVars, pyp_file, rdxdir, test_run_queue, unfinished_tasks,
                   counterVars, lock, testing_complete, cur, idx, tmp,
                   mainVars, dequeued, takes>>

\* child.wait() returns with return code rc (0, or 1 for any other value); the
\* finally clause terminates the child, which has exited; run returns, after the
\* glob of PypeItSetupTest.run has found n files. n is read by that glob only,
\* and is 0 when glob is not run.
RunWait(w) ==
    /\ pc[w] = "wait"
    /\ LET s == cur[w]
           k == idx[w]
           t == steps[s][k]
       IN
         \E rc \in {0, 1} : \E n \in 0..2 :
            LET u == Waited(t, rc)
                v == IF tests[s][k] = "setup" /\ u.passed = "True"
                     THEN SetupChecked(u, n) ELSE u
            IN
              /\ (v.found = -1) => n = 0
              /\ steps' = [steps EXCEPT ![s][k] = v]
              /\ passed' = [passed EXCEPT ![w] = v.passed]
              /\ IF v.found = 1
                 THEN /\ pyp_file' = SetupStore(pyp_file, s, "generated")
                      /\ rdxdir' = SetupStore(rdxdir, s, "out_A")
                 ELSE UNCHANGED <<pyp_file, rdxdir>>
              /\ pc' = [pc EXCEPT ![w] = "completed"]
    /\ UNCHANGED <<setupVars, test_run_queue, unfinished_tasks,
                   counterVars, lock, testing_complete, cur, idx, tmp,
                   mainVars, hist, dequeued, takes>>

(* ------------------------------------------------------------------ *)
(* main, from the start of the worker threads                         *)
(* ------------------------------------------------------------------ *)
\* new_thread.start(), one thread per pass of the loop
StartThread ==
    /\ mpc = "start"
    /\ nstarted < NThreads
    /\ nstarted' = nstarted + 1
    /\ pc' = [pc EXCEPT ![nstarted + 1] = "while"]
    /\ mpc' = IF nstarted + 1 = NThreads THEN "join" ELSE "start"
    /\ UNCHANGED <<setupVars, pyp_file, rdxdir, steps, test_run_queue, unfinished_tasks,
                   counterVars, lock, testing_complete, cur, idx, passed, tmp,
                   end_time, exit_code, hist, dequeued, takes>>

\* a join that does not wait
QueueJoinedAlways == TRUE

\* test_run_queue.join() returns when every item put has been marked done
QueueJoined == unfinished_tasks = 0

JoinQueue ==
    /\ mpc = "join"
    /\ QueueJoined
    /\ mpc' = "complete"
    /\ UNCHANGED <<setupVars, pyp_file, rdxdir, steps, test_run_queue, unfinished_tasks,
                   counterVars, lock, testing_complete, pc, cur, idx, passed, tmp,
                   nstarted, end_time, exit_code, hist, dequeued, takes>>

\* the flag left as it was
CompleteFlagUnset == testing_complete

\* the value main stores in test_report.testing_complete
CompleteFlag == TRUE

\* test_report.testing_complete = True
SetComplete ==
    /\ mpc = "complete"
    /\ testing_complete' = CompleteFlag
    /\ mpc' = "join_threads"
    /\ UNCHANGED <<setupVars, pyp_file, rdxdir, steps, test_run_queue, unfinished_tasks,
                   counterVars, lock, pc, cur, idx, passed, tmp,
                   nstarted, end_time, exit_code, hist, dequeued, takes>>

\* joins that do not wait
ThreadsJoinedAlways == TRUE

\* thread.join() has returned for every thread of thread_pool
ThreadsJoined == \A w \in Threads : pc[w] = "exit"

\* for thread in thread_pool: thread.join()
JoinThreads ==
    /\ mpc = "join_threads"
    /\ ThreadsJoined
    /\ mpc' = "report"
    /\ UNCHANGED <<setupVars, pyp_file, rdxdir, steps, test_run_queue, unfinished_tasks,
                   counterVars, lock, testing_complete, pc, cur, idx, passed, tmp,
                   nstarted, end_time, exit_code, hist, dequeued, takes>>

\* test_report.end_time = now(); detailed_report / summary_report read the counters
Report ==
    /\ mpc = "report"
    /\ end_time' = TRUE
    /\ mpc' = "return"
    /\ UNCHANGED <<setupVars, pyp_file, rdxdir, steps, test_run_queue, unfinished_tasks,
                   counterVars, lock, testing_complete, pc, cur, idx, passed, tmp,
                   nstarted, exit_code, hist, dequeued, takes>>

\* an exit status that counts the skipped tests too
ExitValueWithSkipped == num_failed + num_skipped

\* return test_report.num_failed
ExitValue == num_failed

Return ==
    /\ mpc = "return"
    /\ exit_code' = ExitValue
    /\ mpc' = "done"
    /\ UNCHANGED <<setupVars, pyp_file, rdxdir, steps, test_run_queue, unfinished_tasks,
                   counterVars, lock, testing_complete, pc, cur, idx, passed, tmp,
                   nstarted, end_time, hist, dequeued, takes>>

(* ------------------------------------------------------------------ *)
(* Specifications                                                     *)
(* ------------------------------------------------------------------ *)
Worker(w) ==
    \/ While(w) \/ Get(w) \/ GetEmpty(w) \/ TaskDone(w)
    \/ StartedAcquire(w) \/ StartedLoadTests(w) \/ StartedStoreTests(w)
    \/ StartedLoadActive(w) \/ StartedStoreActive(w)
    \/ SkippedAcquire(w) \/ SkippedLoad(w) \/ SkippedStore(w) \/ SkippedAppend(w)
    \/ CompletedAcquire(w) \/ CompletedLoadActive(w) \/ CompletedStoreActive(w)
    \/ CompletedBranch(w) \/ CompletedStorePassed(w) \/ CompletedStoreFailed(w)
    \/ CompletedAppend(w)
    \/ RunStart(w) \/ RunWait(w)

Main == StartThread \/ JoinQueue \/ SetComplete \/ JoinThreads \/ Report \/ Return

Next == Main \/ \E w \in Threads : Worker(w)

Spec == Init /\ [][Next]_vars

\* Fair scheduling of main and of every worker thread; a child process that was
\* spawned exits (RunWait is a step of its worker)
Fairness == WF_vars(Main) /\ \A w \in Threads : WF_vars(Worker(w))

FairSpec == Init /\ [][Next]_vars /\ Fairness

(* ------------------------------------------------------------------ *)
(* Vocabulary of the properties                                       *)
(* ------------------------------------------------------------------ *)
AllSteps == {x \in Setups \X (1..MaxSteps) : x[2] <= Len(tests[x[1]])}

\* the calls of kind e logged for step k of setup s
CallsOf(s, k, e) == {i \in 1..Len(hist[s][k]) : hist[s][k][i] = e}
Has(s, k, e) == CallsOf(s, k, e) # {}

\* every call of kind e made so far
Calls(e) == UNION {{<<x[1], x[2], i>> : i \in CallsOf(x[1], x[2], e)} : x \in AllSteps}

\* some worker is at step k of setup s, at one of the positions in P
At_(s, k, P) == \E w \in Threads : cur[w] = s /\ idx[w] = k /\ pc[w] \in P

\* run was called for the step and has returned
RunReturned(s, k) == Has(s, k, "run") /\ ~At_(s, k, {"wait"})

\* the step was started and its test_completed call has not finished
Active(s, k) ==
    /\ Has(s, k, "started")
    /\ ~Has(s, k, "completed") \/ At_(s, k, InTestCompleted)

\* the setup was taken from the queue and task_done was called for it
SetupDone(s) == takes[s] > 0 /\ \A w \in Threads : cur[w] # s

Failed(s, k) == steps[s][k].passed = "False"

Range(q) == {q[i] : i \in 1..Len(q)}

(* ------------------------------------------------------------------ *)
(* Properties                                                         *)
(* ------------------------------------------------------------------ *)

\* C1: once the run of a step of a setup has reported failure, no later step of
\* that setup is ever started or run, and when the worker is done with the setup
\* the failed step has exactly one started and one completed report and every
\* later step exactly one skipped report.
C1_SkipPropagation ==
    \A s \in Setups : \A j \in 1..Len(tests[s]) :
        (Failed(s, j) /\ RunReturned(s, j)) =>
            /\ SetupDone(s) => hist[s][j] = <<"started", "run", "completed">>
            /\ \A k \in (j + 1)..Len(tests[s]) :
                 /\ ~Has(s, k, "started")
                 /\ ~Has(s, k, "run")
                 /\ SetupDone(s) => hist[s][k] = <<"skipped">>

\* C1 witness: a setup of three steps whose first step failed has been processed:
\* one started and failed report, two skipped reports.
C1_Witness ==
    \E s \in Setups :
        /\ Len(tests[s]) = 3
        /\ SetupDone(s)
        /\ Failed(s, 1)
        /\ hist[s][1] = <<"started", "run", "completed">>
        /\ hist[s][2] = <<"skipped">>
        /\ hist[s][3] = <<"skipped">>
        /\ num_failed = 1 /\ num_skipped = 2

C3_StepsSequential ==
    /\ \A w1, w2 \in Threads : (w1 # w2 /\ cur[w1] # 0) => cur[w1] # cur[w2]
    /\ \A s \in Setups :
         /\ Cardinality({k \in 1..Len(tests[s]) : Active(s, k)}) <= 1
         /\ \A k \in 1..Len(tests[s]) :
              /\ Cardinality(CallsOf(s, k, "started")) <= 1
              /\ (k > 1 /\ Has(s, k, "started")) =>
                    /\ Has(s, k - 1, "completed")
                    /\ ~Active(s, k - 1)

\* C3 witness: two workers have steps of two setups active at once, one of them
\* the second step of its setup.
C3_Witness ==
    \E s1, s2 \in Setups :
        /\ s1 # s2
        /\ Len(tests[s1]) >= 2
        /\ Active(s1, 2)
        /\ \E k \in 1..Len(tests[s2]) : Active(s2, k)

\* C4: a step is reported skipped only if an earlier step of its own setup failed;
\* the first step of a setup is never skipped and has been started whenever the
\* worker is past it.
C4_NoCrossSetupSkip ==
    \A s \in Setups : \A k \in 1..Len(tests[s]) :
        /\ Has(s, k, "skipped") => \E j \in 1..(k - 1) : Failed(s, j) /\ RunReturned(s, j)
        /\ (k = 1 /\ takes[s] > 0 /\ ~At_(s, 1, {"started"})) => Has(s, 1, "started")

\* C4 witness: a setup with a failed and a skipped step is done, and a setup
\* dequeued after it has had every step started and passed.
C4_Witness ==
    \E i, j \in 1..Len(dequeued) :
        /\ i < j
        /\ SetupDone(dequeued[i]) /\ SetupDone(dequeued[j])
        /\ Len(tests[dequeued[i]]) >= 2
        /\ Has(dequeued[i], 2, "skipped")
        /\ Len(tests[dequeued[j]]) > 0
        /\ \A k \in 1..Len(tests[dequeued[j]]) :
              Has(dequeued[j], k, "started") /\ steps[dequeued[j]][k].passed = "True"

InsideReport == {w \in Threads : pc[w] \in InReport}

\* C5: at most one worker is inside test_started, test_skipped or test_completed,
\* and whenever none is, the counters and lists hold exactly the calls made:
\* no update is lost.
C5_ReportMutualExclusion ==
    /\ Cardinality(InsideReport) <= 1
    /\ (InsideReport # {}) => lock
    /\ (InsideReport = {}) =>
         /\ num_tests = Cardinality(Calls("started"))
         /\ num_active = Cardinality(Calls("started")) - Cardinality(Calls("completed"))
         /\ num_skipped = Cardinality(Calls("skipped"))
         /\ num_passed = Cardinality({x \in AllSteps :
                            Has(x[1], x[2], "completed") /\ steps[x[1]][x[2]].passed = "True"})
         /\ num_failed = Cardinality({x \in AllSteps :
                            Has(x[1], x[2], "completed") /\ steps[x[1]][x[2]].passed # "True"})
         /\ Len(failed_tests) = num_failed
         /\ Range(failed_tests) = {x \in AllSteps :
                            Has(x[1], x[2], "completed") /\ steps[x[1]][x[2]].passed # "True"}
         /\ Len(skipped_tests) = num_skipped
         /\ Range(skipped_tests) = {x \in AllSteps : Has(x[1], x[2], "skipped")}

\* C5 witness: one worker is inside test_completed while another waits for the
\* lock in test_started, after updates of both workers have been counted.
C5_Witness ==
    \E w1, w2 \in Threads :
        /\ pc[w1] \in InTestCompleted
        /\ pc[w2] = "started"
        /\ num_tests >= 2
        /\ num_passed + num_failed >= 1

Terminated ==
    /\ mpc = "done"
    /\ \A w \in Threads : pc[w] = "exit"
    /\ \A s \in Setups : SetupDone(s)

\* C6: under fair scheduling, with every child process exiting, a state is
\* reached in which every queued setup has been processed, every worker has left
\* its loop and main has returned.
C6_Termination == <>Terminated

\* C6 witness: the run has ended after both workers ran tests.
C6_Witness == Terminated /\ num_tests >= 2 /\ num_passed >= 1

\* the steps that were started and ended failed
StartedAndFailed == {x \in AllSteps : Has(x[1], x[2], "started") /\ Failed(x[1], x[2])}

\* C7: when main has returned, the value it returned is the number of steps that
\* were started and ended failed.
C7_ExitStatus == (mpc = "done") => exit_code = Cardinality(StartedAndFailed)

\* C7 witness: main has returned 1 after a run with one failed, one passed and
\* one skipped step.
C7_Witness ==
    /\ mpc = "done"
    /\ exit_code = 1
    /\ num_passed = 1
    /\ num_skipped = 1

\* What holds of every run that has returned, whatever decides passed: a run
\* without a child process (an exception before or at the launch, or the missing
\* file of the sensfunc step) leaves the step failed with a message recorded, the
\* step is never left unmarked, and thread_target goes on to test_completed.
RunNeverRaises(s, k) ==
    /\ steps[s][k].passed # "None"
    /\ ~steps[s][k].pid => (Failed(s, k) /\ steps[s][k].error_msgs > 0)
    /\ Has(s, k, "completed") \/ At_(s, k, {"completed"})

\* C8 as stated: the step is passed iff its child process exited with code 0.
C8_PassedIffExitZero ==
    \A x \in AllSteps :
        RunReturned(x[1], x[2]) =>
            /\ (steps[x[1]][x[2]].passed = "True") <=> (steps[x[1]][x[2]].returncode = 0)
            /\ RunNeverRaises(x[1], x[2])

\* C8 amended: the step is passed iff its child process exited with code 0 and,
\* for the pypeit_setup step, exactly one generated pypeit file was then found;
\* an exception before the child runs is caught, recorded and leaves the step
\* failed, and run returns to the worker.
C8_PassedIffExitZeroAndFile ==
    \A x \in AllSteps :
        RunReturned(x[1], x[2]) =>
            /\ (steps[x[1]][x[2]].passed = "True") <=>
                  /\ steps[x[1]][x[2]].returncode = 0
                  /\ (tests[x[1]][x[2]] = "setup") => steps[x[1]][x[2]].found = 1
            /\ RunNeverRaises(x[1], x[2])

\* C8 witness: a pypeit_setup step whose child exited with code 0 is failed because
\* no single pypeit file was found, and a step of another setup is failed with
\* the two messages of a caught exception.
C8_Witness ==
    \E x, y \in AllSteps :
        /\ x[1] # y[1]
        /\ tests[x[1]][x[2]] = "setup"
        /\ RunReturned(x[1], x[2])
        /\ steps[x[1]][x[2]].returncode = 0
        /\ steps[x[1]][x[2]].found = 0
        /\ Failed(x[1], x[2])
        /\ RunReturned(y[1], y[2])
        /\ ~steps[y[1]][y[2]].pid
        /\ steps[y[1]][y[2]].error_msgs = 2
        /\ Failed(y[1], y[2])

\* C9: get returns every setup at most once (exactly once by the end of the run),
\* run is called at most once for every step, and the result fields of a step
\* change only in a step of its own run, called once, by the worker at that step.
C9_RunOnce ==
    /\ [](/\ \A s \in Setups : takes[s] <= 1
          /\ (mpc = "done") => \A s \in Setups : takes[s] = 1
          /\ \A x \in AllSteps : Cardinality(CallsOf(x[1], x[2], "run")) <= 1)
    /\ [][\A x \in AllSteps :
            (steps'[x[1]][x[2]] # steps[x[1]][x[2]]) =>
               /\ At_(x[1], x[2], {"run", "wait"})
               /\ Cardinality({w \in Threads : cur[w] = x[1]}) = 1
               /\ hist'[x[1]][x[2]] = <<"started", "run">>]_vars

\* C9 witness: every setup has been taken once and two setups have a step whose
\* run has returned.
C9_Witness ==
    /\ \A s \in Setups : takes[s] = 1
    /\ \E x, y \in AllSteps :
          /\ x[1] # y[1]
          /\ RunReturned(x[1], x[2])
          /\ RunReturned(y[1], y[2])

\* main is at or past the computation of end_time and the reports
Reporting == mpc \in {"report", "return", "done"}

\* C10: main computes end_time, reports and returns only when the queue is joined
\* and every worker thread has terminated, and from then on no counter or list of
\* the TestReport changes.
C10_ReportAfterJoin ==
    /\ [](/\ Reporting =>
               /\ unfinished_tasks = 0
               /\ test_run_queue = <<>>
               /\ \A w \in Threads : pc[w] = "exit"
               /\ ~lock
          /\ (end_time \/ exit_code # -1) => Reporting)
    /\ [][Reporting => UNCHANGED counterVars]_vars

\* C10 witness: main has returned after a run that counted tests.
C10_Witness == mpc = "done" /\ end_time /\ num_tests >= 2 /\ exit_code = num_failed

(* ------------------------------------------------------------------ *)
(* main's choice of the tests and build_test_setup                    *)
(* ------------------------------------------------------------------ *)
\* The values of pargs.tests told apart by main: the four groups of development
\* setups, all, and the name of an instrument
TestsArgs == {"develop", "reduce", "afterburn", "ql", "all", "kast"}

\* Instrument/setup pairs of develop_setups: every pair build_test_setup names,
\* and pairs it has no rule for
DevSetups ==
    {<<"shane_kast_blue", "452_3306_d57">>, <<"shane_kast_blue", "600_4310_d55">>,
     <<"shane_kast_blue", "830_3460_d46">>, <<"keck_deimos", "600ZD_M_6500">>,
     <<"keck_nires", "NIRES">>, <<"keck_lris_blue", "multi_600_4000_d560">>,
     <<"keck_lris_blue", "long_400_3400_d560">>,
     <<"keck_lris_red", "long_600_7500_d560">>,
     <<"vlt_xshooter", "VIS_1x1">>, <<"vlt_xshooter", "VIS_manual">>,
     <<"gemini_gnirs", "32_SB_SXD">>, <<"gemini_gnirs", "10_LB_SXD">>,
     <<"gemini_gmos", "GS_HAM_R400_700">>, <<"gemini_gmos", "GS_HAM_R400_860">>}

\* '600' in setup.name
Has600(name) ==
    name \in {"600_4310_d55", "600ZD_M_6500", "multi_600_4000_d560",
              "long_600_7500_d560"}

\* setup.tests.append(...)
AppendTests(st, ts) == [st EXCEPT !.tests = st.tests \o ts]

BuildInit ==
    /\ pargs \in [tests : TestsArgs, prep_only : BOOLEAN, masters : BOOLEAN]
    /\ flg_after = FALSE
    /\ flg_ql = FALSE
    /\ \E p \in DevSetups :
          setup = [instr |-> p[1], name |-> p[2], pyp_file |-> "None",
                   std_pyp_file |-> "None", tests |-> <<>>]
    /\ bpc = "main"
    /\ templates \in SUBSET {"pypeit", "std"}
    /\ OnlyBuild

\* main: flg_after and flg_ql from pargs.tests
SelectTests ==
    /\ bpc = "main"
    /\ flg_after' = (pargs.tests = "afterburn")
    /\ flg_ql' = (pargs.tests = "ql")
    /\ bpc' = "check"
    /\ UNCHANGED <<templates, pargs, setup, otherThanBuild>>

\* the setups whose pypeit file pypeit_setup creates need no template
NeedsTemplate(st) == ~(st.instr = "shane_kast_blue" /\ Has600(st.name))

\* main: for the groups of development setups, every template pypeit file is
\* looked for before anything starts, and a missing one raises ValueError
MainCheck ==
    /\ bpc = "check"
    /\ bpc' = IF /\ pargs.tests \in {"develop", "reduce", "afterburn", "ql"}
                 /\ NeedsTemplate(setup)
                 /\ "pypeit" \notin templates
              THEN "ValueError" ELSE "pypeit_file"
    /\ UNCHANGED <<templates, pargs, flg_after, flg_ql, setup, otherThanBuild>>

\* a template looked for as the standards template is: None where it is missing
BuildPypeItFileNoRaise ==
    /\ bpc = "pypeit_file"
    /\ IF ~NeedsTemplate(setup)
       THEN setup' = AppendTests(setup, <<"PypeItSetupTest">>)
       ELSE setup' = [setup EXCEPT
                !.pyp_file = IF "pypeit" \in templates THEN "template" ELSE "None",
                !.std_pyp_file = IF "std" \in templates THEN "template" ELSE "None"]
    /\ bpc' = IF pargs.prep_only THEN "done" ELSE "reduce"
    /\ UNCHANGED <<templates, pargs, flg_after, flg_ql, otherThanBuild>>

\* build_test_setup: pypeit_setup for shane_kast_blue 600, else the pre-made
\* PypeIt files: fix_pypeit_file_directory raises FileNotFoundError for a missing
\* template and gives None for a missing standards template; return when only
\* preparing
BuildPypeItFile ==
    /\ bpc = "pypeit_file"
    /\ IF ~NeedsTemplate(setup)
       THEN /\ setup' = AppendTests(setup, <<"PypeItSetupTest">>)
            /\ bpc' = IF pargs.prep_only THEN "done" ELSE "reduce"
       ELSE IF "pypeit" \notin templates
       THEN /\ bpc' = "FileNotFoundError"
            /\ UNCHANGED setup
       ELSE /\ setup' = [setup EXCEPT
                   !.pyp_file = "template",
                   !.std_pyp_file = IF "std" \in templates THEN "template" ELSE "None"]
            /\ bpc' = IF pargs.prep_only THEN "done" ELSE "reduce"
    /\ UNCHANGED <<templates, pargs, flg_after, flg_ql, otherThanBuild>>

\* the condition of the reduce tests
ReduceWanted == ~(flg_after \/ flg_ql)

\* build_test_setup: the reduce tests; return when pargs.tests is reduce
BuildReduce ==
    /\ bpc = "reduce"
    /\ setup' =
         IF ReduceWanted
         THEN AppendTests(setup,
                 <<"PypeItReduceTest">>
                 \o (IF setup.std_pyp_file # "None" THEN <<"PypeItReduceTest">> ELSE <<>>)
                 \o (IF setup.instr = "keck_lris_red" THEN <<"PypeItReduceTest">> ELSE <<>>))
         ELSE setup
    /\ bpc' = IF pargs.tests = "reduce" THEN "done" ELSE "sensfunc"
    /\ UNCHANGED <<templates, pargs, flg_after, flg_ql, otherThanBuild>>

\* the pairs with fluxing, coadd1d tests
flux_coadd1d_pairs ==
    {<<"shane_kast_blue", "600_4310_d55">>, <<"gemini_gnirs", "32_SB_SXD">>,
     <<"gemini_gmos", "GS_HAM_R400_860">>}

\* build_test_setup: the SensFunc tests
BuildSensFunc ==
    /\ bpc = "sensfunc"
    /\ setup' =
         IF ~flg_ql
         THEN AppendTests(setup,
                 (IF setup.instr = "shane_kast_blue" /\ Has600(setup.name)
                  THEN <<"PypeItSensFuncTest">> ELSE <<>>)
                 \o (IF setup.instr = "gemini_gnirs" /\ setup.name = "32_SB_SXD"
                     THEN <<"PypeItSensFuncTest">> ELSE <<>>)
                 \o (IF setup.instr = "gemini_gmos" /\ setup.name = "GS_HAM_R400_860"
                     THEN <<"PypeItSensFuncTest">> ELSE <<>>))
         ELSE setup
    /\ bpc' = "flux"
    /\ UNCHANGED <<templates, pargs, flg_after, flg_ql, otherThanBuild>>

\* build_test_setup: the fluxing/coadd1d tests
BuildFlux ==
    /\ bpc = "flux"
    /\ setup' =
         IF ~flg_ql /\ <<setup.instr, setup.name>> \in flux_coadd1d_pairs
         THEN AppendTests(setup,
                 <<"PypeItFluxSetupTest", "PypeItFluxTest", "PypeItCoadd1DTest">>)
         ELSE setup
    /\ bpc' = "coadd2d"
    /\ UNCHANGED <<templates, pargs, flg_after, flg_ql, otherThanBuild>>

\* build_test_setup: the 2D coadding tests
BuildCoadd2D ==
    /\ bpc = "coadd2d"
    /\ setup' =
         IF ~flg_ql
         THEN AppendTests(setup,
                 (IF setup.instr = "gemini_gnirs" /\ setup.name = "32_SB_SXD"
                  THEN <<"PypeItCoadd2DTest">> ELSE <<>>)
                 \o (IF setup.instr = "keck_lris_blue" /\ setup.name = "multi_600_4000_d560"
                     THEN <<"PypeItCoadd2DTest">> ELSE <<>>)
                 \o (IF setup.instr = "vlt_xshooter" /\ setup.name = "VIS_manual"
                     THEN <<"PypeItCoadd2DTest">> ELSE <<>>))
         ELSE setup
    /\ bpc' = "telluric"
    /\ UNCHANGED <<templates, pargs, flg_after, flg_ql, otherThanBuild>>

\* build_test_setup: the telluric tests
BuildTelluric ==
    /\ bpc = "telluric"
    /\ setup' =
         IF ~flg_ql /\ setup.instr = "gemini_gnirs" /\ setup.name = "32_SB_SXD"
         THEN AppendTests(setup, <<"PypeItTelluricTest">>)
         ELSE setup
    /\ bpc' = "quicklook"
    /\ UNCHANGED <<templates, pargs, flg_after, flg_ql, otherThanBuild>>

\* build_test_setup: the quick-look tests, and return
BuildQuickLook ==
    /\ bpc = "quicklook"
    /\ setup' =
         AppendTests(setup,
            (IF setup.instr = "shane_kast_blue" /\ Has600(setup.name)
             THEN <<"PypeItQuickLookTest">> ELSE <<>>)
            \o (IF setup.instr = "keck_nires" /\ setup.name = "NIRES"
                THEN <<"PypeItQuickLookTest">> ELSE <<>>))
    /\ bpc' = "done"
    /\ UNCHANGED <<templates, pargs, flg_after, flg_ql, otherThanBuild>>

\* main: the setup goes on the queue, and after the loop over the setups the
\* report is made and the threads are started
MainStartThreads ==
    /\ bpc = "done"
    /\ bpc' = "threads"
    /\ UNCHANGED <<templates, pargs, flg_after, flg_ql, setup, otherThanBuild>>

BuildNext ==
    \/ SelectTests \/ MainCheck \/ BuildPypeItFile \/ BuildReduce \/ BuildSensFunc
    \/ BuildFlux \/ BuildCoadd2D \/ BuildTelluric \/ BuildQuickLook
    \/ MainStartThreads

BuildSpec == BuildInit /\ [][BuildNext]_vars

\* The classes of test by the part of the suite they belong to. PypeItSetupTest
\* writes the PypeIt file that the tests of every part read, and is counted
\* with each part.
ReductionTests == {"PypeItSetupTest", "PypeItReduceTest"}
AfterburnTests == {"PypeItSetupTest", "PypeItSensFuncTest", "PypeItFluxSetupTest",
                   "PypeItFluxTest", "PypeItCoadd1DTest", "PypeItCoadd2DTest",
                   "PypeItTelluricTest"}
QuickLookTests == {"PypeItSetupTest", "PypeItQuickLookTest"}

\* C11: the list of tests built for a setup holds only reduce tests when the
\* tests argument is reduce, only the tests made after the reductions (sensfunc,
\* flux setup, flux calibration, 1D and 2D coadd, telluric) when it is afterburn,
\* and only quick-look tests when it is ql.
C11_ModeRestrictsTests ==
    (bpc = "done" /\ ~pargs.prep_only) =>
        /\ (pargs.tests = "reduce") => (Range(setup.tests) \subseteq ReductionTests)
        /\ (pargs.tests = "afterburn") => (Range(setup.tests) \subseteq AfterburnTests)
        /\ (pargs.tests = "ql") => (Range(setup.tests) \subseteq QuickLookTests)

(* ------------------------------------------------------------------ *)
(* get_unique_file                                                    *)
(* ------------------------------------------------------------------ *)
\* the largest number in the name of a file that exists before the first call
MaxNum == 4
\* the number of calls made
MaxCalls == 3

\* A path is the sequence of the pieces it is written from. The paths passed in:
\* one with an extension, one without (os.path.splitext gives '' then), and the
\* log of a test, '{instr}_{setup}.{log_suffix}.log'
FileArgs == {<<"pypeit_test_results", ".txt">>, <<"run_pypeit", "">>,
             <<"shane_kast_blue_600_4310_d55.test", ".log">>}

\* os.path.splitext of a path passed in
splitext(f) == <<f[1], f[2]>>

\* f'{file_base}.{file_num}.{file_ext}'
Numbered(file_base, file_num, file_ext) == <<file_base, ".", file_num, ".", file_ext>>

\* one try of the number 2, whether or not that name is free
get_unique_file_once(f, exists) ==
    IF f \in exists THEN Numbered(splitext(f)[1], 2, splitext(f)[2]) ELSE f

RECURSIVE UniqueLoop(_, _, _, _, _)
\* while os.path.exists(file): file = ...; file_num += 1
UniqueLoop(f, file_base, file_ext, file_num, exists) ==
    IF f \in exists
    THEN UniqueLoop(Numbered(file_base, file_num, file_ext), file_base, file_ext,
                    file_num + 1, exists)
    ELSE f

get_unique_file(f, exists) ==
    UniqueLoop(f, splitext(f)[1], splitext(f)[2], 2, exists)

\* The files that may exist before the first call: the path itself, numbered
\* names made from it, and a file of another name
Candidates(f) ==
    {f, <<"other", ".log">>} \cup {Numbered(f[1], n, f[2]) : n \in 2..MaxNum}

UniqueInit ==
    /\ file \in FileArgs
    /\ fs \in SUBSET Candidates(file)
    /\ calls = <<>>
    /\ upc = "call"
    /\ OnlyUnique

\* a caller (get_logfile, main) calls get_unique_file(file)
UniqueCall ==
    /\ upc = "call"
    /\ Len(calls) < MaxCalls
    /\ calls' = Append(calls, [exists |-> fs, result |-> get_unique_file(file, fs)])
    /\ upc' = "create"
    /\ UNCHANGED <<fs, file, otherThanUnique>>

\* the caller opens the file returned for writing
UniqueCreate ==
    /\ upc = "create"
    /\ fs' = fs \cup {calls[Len(calls)].result}
    /\ upc' = "call"
    /\ UNCHANGED <<file, calls, otherThanUnique>>

UniqueNext == UniqueCall \/ UniqueCreate

UniqueSpec == UniqueInit /\ [][UniqueNext]_vars

\* the number in a numbered name, 1 for the path as passed in
NumberOf(f) == IF Len(f) = 5 THEN f[3] ELSE 1

\* C12: get_unique_file returns its argument when no file exists there; otherwise
\* it returns a name at which no file exists, numbered with the first of 2, 3,
\* 4, ... that is free; calls against an existing path, each file returned being
\* created before the next call, return distinct names with increasing numbers.
C12_UniqueFile ==
    /\ \A i \in 1..Len(calls) :
          LET c == calls[i] IN
            /\ (file \notin c.exists) => (c.result = file)
            /\ c.result \notin c.exists
            /\ (file \in c.exists) =>
                  \E n \in 2..(MaxNum + MaxCalls + 1) :
                     /\ c.result = Numbered(file[1], n, file[2])
                     /\ \A k \in 2..(n - 1) : Numbered(file[1], k, file[2]) \in c.exists
    /\ \A i, j \in 1..Len(calls) :
          (i < j) => /\ calls[i].result # calls[j].result
                     /\ NumberOf(calls[i].result) < NumberOf(calls[j].result)

\* C12 witness: three calls against an existing path whose name numbered 3 was
\* taken: the numbers returned are 2, 4 and 5.
C12_Witness ==
    /\ Len(calls) = 3
    /\ file \in calls[1].exists
    /\ NumberOf(calls[1].result) = 2
    /\ NumberOf(calls[2].result) = 4
    /\ NumberOf(calls[3].result) = 5

(* ------------------------------------------------------------------ *)
(* The telluric grid (dev_algorithms/sensfunc/telluric.py)            *)
(* ------------------------------------------------------------------ *)
\* wave_grid.size: the samples of the wavelength grid
NGrid == 3
\* the longest axis of the grid of models
MaxAxis == 2

GridIdx == 0..(NGrid - 1)

\* The grid points of a grid of the given shape (NPRES, NTEMP, NHUM, NAM)
GridPoints(shape) ==
    {<<p, t, h, a>> : p \in 0..(shape[1] - 1), t \in 0..(shape[2] - 1),
                      h \in 0..(shape[3] - 1), a \in 0..(shape[4] - 1)}

\* A grid file: the transmission (in thirds) at sample j of the model at grid
\* point g, different at neighbouring grid points; k tells the files apart
Transmission(k, g, j) == (k * (j + 1) + (g[1] + g[2] + g[3] + g[4]) * (j + 2)) % 3

\* read_telluric_grid without wave_min, wave_max: the whole grid
ReadGrid(shape, k) ==
    [shape |-> shape,
     tell_grid |-> [g \in GridPoints(shape) |-> [j \in GridIdx |-> Transmission(k, g, j)]]]

(* ------------------------------------------------------------------ *)
(* The Telluric engine: __init__, run, save, as sensfunc_telluric and *)
(* qso_telluric drive it                                              *)
(* ------------------------------------------------------------------ *)
\* self.norders
NOrders == 3
\* the values a seed of the optimizer takes (randint draws below 2**32 - 1)
SeedSpace == 2

Orders == 0..(NOrders - 1)

\* None, and a value that is not None
None == {}
Some(v) == {v}
Val(o) == CHOOSE v \in o : TRUE

\* seed=None
NoSeed == -1

inputVars == <<seed, only_orders, tell_dict, ind_lower, ind_upper>>
listVars == <<result_list, theta_obj_list, theta_tell_list, obj_model_list, tellmodel_list>>
tableVars == <<meta_table, out_table>>
histVars == <<prev_seed_vec, seeds_agree, init_visits, run_visits, writes>>

\* [None]*self.norders
NoneList == [iord \in Orders |-> None]

\* The index ranges of an order's data: the data end before the last sample of
\* the grid
IndRanges == {r \in GridIdx \X GridIdx : r[1] <= r[2] /\ r[2] <= NGrid - 2}

\* The arguments of run: None, an int, lists (empty, out of sorted order, with a
\* repeated and an unknown order)
OnlyOrdersArgs ==
    {[kind |-> "None", val |-> <<>>], [kind |-> "int", val |-> <<1>>],
     [kind |-> "list", val |-> <<>>], [kind |-> "list", val |-> <<2, 0>>],
     [kind |-> "list", val |-> <<1, 1, NOrders>>]}

EngineInit ==
    /\ inst = 1
    /\ phase = "new"
    /\ seed \in {NoSeed, 5, 777}
    /\ only_orders \in OnlyOrdersArgs
    /\ \E k \in 0..1 : tell_dict = ReadGrid(<<MaxAxis, MaxAxis, 1, MaxAxis>>, k)
    /\ \E r \in [Orders -> IndRanges] :
          /\ ind_lower = [iord \in Orders |-> r[iord][1]]
          /\ ind_upper = [iord \in Orders |-> r[iord][2]]
    /\ seed_vec = <<>> /\ prev_seed_vec = <<>> /\ seeds_agree = "unknown"
    /\ srt_order_tell = <<>>
    /\ counter = 0
    /\ arg_dict_list = <<>>
    /\ good_orders = <<>>
    /\ result_list = <<>> /\ theta_obj_list = <<>> /\ theta_tell_list = <<>>
    /\ obj_model_list = <<>> /\ tellmodel_list = <<>>
    /\ meta_table = None /\ out_table = <<>> /\ outfile = None
    /\ init_visits = <<>> /\ run_visits = <<>>
    /\ writes = [iord \in Orders |-> 0]
    /\ OnlyEngine

\* np.random.RandomState(seed=s).randint(2 ** 32 - 1, size=norders): the vectors
\* it can return. A seed fixes the vector; None seeds the generator from the
\* operating system's entropy.
randint(s) ==
    IF s = NoSeed
    THEN [Orders -> 0..(SeedSpace - 1)]
    ELSE {[iord \in Orders |-> (s + iord * (s + 1)) % SeedSpace]}

\* tm_grid.shape[i] // 2 on every axis
MidPoint(shape) == <<shape[1] \div 2, shape[2] \div 2, shape[3] \div 2, shape[4] \div 2>>

RECURSIVE SumRange(_, _, _)
\* the sum of spec[lo..hi]
SumRange(spec, lo, hi) == IF lo > hi THEN 0 ELSE spec[lo] + SumRange(spec, lo + 1, hi)

\* tell_med[iord] = np.mean(tell_model_mid): <<sum, number of samples>>
tell_med(iord) ==
    LET tell_model_mid == tell_dict.tell_grid[MidPoint(tell_dict.shape)]
    IN  <<SumRange(tell_model_mid, ind_lower[iord], ind_upper[iord]),
          ind_upper[iord] - ind_lower[iord] + 1>>

\* the comparison of a sort from the largest mean down
MedLeqDescending(a, b) == tell_med(a)[1] * tell_med(b)[2] >= tell_med(b)[1] * tell_med(a)[2]

\* tell_med[a] <= tell_med[b]
MedLeq(a, b) == tell_med(a)[1] * tell_med(b)[2] <= tell_med(b)[1] * tell_med(a)[2]

\* tell_med.argsort(): a permutation of the orders that sorts tell_med ascending
\* (the order of equal values is the sort's own)
argsort ==
    {p \in [1..NOrders -> Orders] :
        /\ \A i, j \in 1..NOrders : (i # j) => (p[i] # p[j])
        /\ \A i, j \in 1..NOrders : (i < j) => MedLeq(p[i], p[j])}

\* __init__ up to the loop over the orders: the seeds (the generator is given
\* the argument seed, not self.seed with its default of 777), the grid, the sort
Construct ==
    /\ phase = "new"
    /\ seed_vec' \in randint(seed)
    /\ srt_order_tell' \in argsort
    /\ arg_dict_list' = NoneList
    /\ counter' = 0
    /\ phase' = "init_obj"
    /\ prev_seed_vec' = <<>>
    /\ seeds_agree' = IF inst = 1 THEN "unknown"
                      ELSE IF seed_vec' = prev_seed_vec THEN "same" ELSE "different"
    /\ UNCHANGED <<inst, inputVars, good_orders, listVars, tableVars, outfile,
                   init_visits, run_visits, writes, otherThanEngine>>

\* __init__: one turn of the loop over srt_order_tell
InitObjModel ==
    /\ phase = "init_obj"
    /\ counter < NOrders
    /\ LET iord == srt_order_tell[counter + 1] IN
         /\ arg_dict_list' = [arg_dict_list EXCEPT ![iord] =
               Some([ind_lower |-> ind_lower[iord], ind_upper |-> ind_upper[iord],
                     seed |-> seed_vec[iord]])]
         /\ init_visits' = Append(init_visits, iord)
    /\ counter' = counter + 1
    /\ UNCHANGED <<inst, phase, inputVars, seed_vec, srt_order_tell, good_orders,
                   listVars, tableVars, outfile, prev_seed_vec, seeds_agree, run_visits,
                   writes,
                   otherThanEngine>>

\* init_output: the row of an order before it is fitted
InitRow(iord) ==
    [TELLURIC |-> 0, OBJ_MODEL |-> 0, TELL_THETA |-> <<0, 0, 0, 0, 0, 0>>,
     OBJ_THETA |-> <<0>>, CHI2 |-> 0, SUCCESS |-> FALSE, NITER |-> 0,
     IND_LOWER |-> ind_lower[iord], IND_UPPER |-> ind_upper[iord]]

\* __init__: init_output, after the loop
InitOutput ==
    /\ phase = "init_obj"
    /\ counter = NOrders
    /\ meta_table' = Some([TOL |-> 1, POPSIZE |-> 30, TELGRIDFILE |-> "grid"])
    /\ out_table' = [iord \in Orders |-> InitRow(iord)]
    /\ phase' = "constructed"
    /\ UNCHANGED <<inst, inputVars, seed_vec, srt_order_tell, counter, arg_dict_list,
                   good_orders, listVars, outfile, histVars, otherThanEngine>>

\* run: only_orders as a list, or the sorted orders for None
GoodOrders == IF only_orders.kind = "None" THEN srt_order_tell ELSE only_orders.val

\* run, up to its loop
RunBegin ==
    /\ phase = "constructed"
    /\ good_orders' = GoodOrders
    /\ result_list' = NoneList
    /\ obj_model_list' = NoneList
    /\ tellmodel_list' = NoneList
    /\ theta_obj_list' = NoneList
    /\ theta_tell_list' = NoneList
    /\ counter' = 0
    /\ phase' = "run"
    /\ UNCHANGED <<inst, inputVars, seed_vec, srt_order_tell, arg_dict_list,
                   tableVars, outfile, histVars, otherThanEngine>>

\* a loop that fits every order
InGoodOrdersAlways(iord, good) == TRUE

\* iord in good_orders
InGoodOrders(iord, good) == \E i \in 1..Len(good) : good[i] = iord

\* run: a turn of the loop for an order that is not in good_orders
RunSkip ==
    /\ phase = "run"
    /\ counter < NOrders
    /\ ~InGoodOrders(srt_order_tell[counter + 1], good_orders)
    /\ counter' = counter + 1
    /\ UNCHANGED <<inst, phase, inputVars, seed_vec, srt_order_tell, arg_dict_list,
                   good_orders, listVars, tableVars, outfile, histVars,
                   otherThanEngine>>

\* What utils.robust_optimize returns: x (one parameter of the object model and
\* the six of the telluric model), fun, success, nit; a fit that converged and
\* one that did not
Results ==
    {[x |-> <<3, 1, 2, 1, 1, 2, 1>>, fun |-> 4, success |-> TRUE, nit |-> 2],
     [x |-> <<1, 2, 1, 2, 2, 1, 0>>, fun |-> 9, success |-> FALSE, nit |-> 1]}

\* x[:-6] and x[-6:]
AllButLast6(x) == SubSeq(x, 1, Len(x) - 6)
Last6(x) == SubSeq(x, Len(x) - 5, Len(x))

\* run: a turn of the loop for an order in good_orders, up to assign_output
RunFit ==
    /\ phase = "run"
    /\ counter < NOrders
    /\ LET iord == srt_order_tell[counter + 1] IN
         /\ InGoodOrders(iord, good_orders)
         /\ \E r \in Results :
               /\ result_list' = [result_list EXCEPT ![iord] = Some(r)]
               /\ theta_obj_list' = [theta_obj_list EXCEPT ![iord] = Some(AllButLast6(r.x))]
               /\ theta_tell_list' = [theta_tell_list EXCEPT ![iord] = Some(Last6(r.x))]
               /\ obj_model_list' = [obj_model_list EXCEPT ![iord] = Some(AllButLast6(r.x)[1])]
               /\ tellmodel_list' = [tellmodel_list EXCEPT ![iord] = Some(Last6(r.x)[1])]
         /\ run_visits' = Append(run_visits, iord)
    /\ phase' = "assign"
    /\ UNCHANGED <<inst, inputVars, seed_vec, srt_order_tell, counter, arg_dict_list,
                   good_orders, tableVars, outfile, prev_seed_vec, seeds_agree, init_visits,
                   writes,
                   otherThanEngine>>

\* assign_output(iord): the row of a fitted order
FitRow(iord) ==
    [TELLURIC |-> Val(tellmodel_list[iord]), OBJ_MODEL |-> Val(obj_model_list[iord]),
     TELL_THETA |-> Val(theta_tell_list[iord]), OBJ_THETA |-> Val(theta_obj_list[iord]),
     CHI2 |-> Val(result_list[iord]).fun, SUCCESS |-> Val(result_list[iord]).success,
     NITER |-> Val(result_list[iord]).nit,
     IND_LOWER |-> out_table[iord].IND_LOWER, IND_UPPER |-> out_table[iord].IND_UPPER]

\* run: self.assign_output(iord), the end of the turn
AssignOutput ==
    /\ phase = "assign"
    /\ LET iord == srt_order_tell[counter + 1] IN
         /\ out_table' = [out_table EXCEPT ![iord] = FitRow(iord)]
         /\ writes' = [writes EXCEPT ![iord] = @ + 1]
    /\ counter' = counter + 1
    /\ phase' = "run"
    /\ UNCHANGED <<inst, inputVars, seed_vec, srt_order_tell, arg_dict_list,
                   good_orders, listVars, meta_table, outfile, prev_seed_vec,
                   seeds_agree, init_visits, run_visits, otherThanEngine>>

\* run returns
RunEnd ==
    /\ phase = "run"
    /\ counter = NOrders
    /\ phase' = "ran"
    /\ UNCHANGED <<inst, inputVars, seed_vec, srt_order_tell, counter, arg_dict_list,
                   good_orders, listVars, tableVars, outfile, histVars,
                   otherThanEngine>>

\* a driver that fits again after saving
AfterSaveRefit == "constructed"

\* the driver after TelObj.save(outfile): done with the engine
AfterSave == "saved"

\* save(outfile): the two tables written to the file
Save ==
    /\ phase = "ran"
    /\ outfile' = Some([METADATA |-> Val(meta_table), OUT_TABLE |-> out_table])
    /\ phase' = AfterSave
    /\ UNCHANGED <<inst, inputVars, seed_vec, srt_order_tell, counter, arg_dict_list,
                   good_orders, listVars, tableVars, histVars, otherThanEngine>>

\* The driver is called again with the same arguments: a second engine is
\* constructed
Again ==
    /\ phase = "saved"
    /\ inst = 1
    /\ inst' = 2
    /\ prev_seed_vec' = seed_vec
    /\ phase' = "new"
    /\ seed_vec' = <<>>
    /\ srt_order_tell' = <<>>
    /\ counter' = 0
    /\ arg_dict_list' = <<>>
    /\ good_orders' = <<>>
    /\ result_list' = <<>> /\ theta_obj_list' = <<>> /\ theta_tell_list' = <<>>
    /\ obj_model_list' = <<>> /\ tellmodel_list' = <<>>
    /\ meta_table' = None /\ out_table' = <<>> /\ outfile' = None
    /\ init_visits' = <<>> /\ run_visits' = <<>>
    /\ writes' = [iord \in Orders |-> 0]
    /\ UNCHANGED <<inputVars, seeds_agree, otherThanEngine>>

EngineNext ==
    \/ Construct \/ InitObjModel \/ InitOutput
    \/ RunBegin \/ RunSkip \/ RunFit \/ AssignOutput \/ RunEnd
    \/ Save \/ Again

EngineSpec == EngineInit /\ [][EngineNext]_vars

(* ------------------------------------------------------------------ *)
(* Properties of the Telluric engine                                  *)
(* ------------------------------------------------------------------ *)
\* construct, run, save, in this order
PhaseRank(ph) ==
    CASE ph = "new" -> 0
      [] ph = "init_obj" -> 1
      [] ph = "constructed" -> 2
      [] ph \in {"run", "assign"} -> 3
      [] ph = "ran" -> 4
      [] ph = "saved" -> 5

Listed(iord) == iord \in Range(only_orders.val)

\* C14: run(only_orders=L) fits the orders in L and no other: an order outside L
\* keeps None in the lists of results, models and parameters and keeps the row
\* init_output gave it (zero models and parameters, CHI2 0, SUCCESS false,
\* NITER 0); nothing marks it as failed.
C14_OnlyOrders ==
    (only_orders.kind # "None" /\ phase \in {"run", "assign", "ran", "saved"}) =>
        \A iord \in Orders :
            /\ ~Listed(iord) =>
                  /\ result_list[iord] = None
                  /\ obj_model_list[iord] = None /\ tellmodel_list[iord] = None
                  /\ theta_obj_list[iord] = None /\ theta_tell_list[iord] = None
                  /\ out_table[iord] = InitRow(iord)
                  /\ writes[iord] = 0
            /\ (Listed(iord) /\ phase \in {"ran", "saved"}) =>
                  /\ result_list[iord] # None
                  /\ writes[iord] = 1
                  /\ out_table[iord] = FitRow(iord)

\* C14 witness: run(only_orders=[2, 0]) has returned; orders 0 and 2 are fitted,
\* order 1 is not.
C14_Witness ==
    /\ phase = "saved"
    /\ only_orders = [kind |-> "list", val |-> <<2, 0>>]
    /\ result_list[0] # None /\ result_list[2] # None
    /\ result_list[1] = None /\ out_table[1].CHI2 = 0

\* the mean transmission of order a is at most that of order b
MeanLeq(a, b) ==
    LET mid == tell_dict.tell_grid[<<tell_dict.shape[1] \div 2, tell_dict.shape[2] \div 2,
                                     tell_dict.shape[3] \div 2, tell_dict.shape[4] \div 2>>]
        sa == SumRange(mid, ind_lower[a], ind_upper[a])
        sb == SumRange(mid, ind_lower[b], ind_upper[b])
    IN  sa * (ind_upper[b] - ind_lower[b] + 1) <= sb * (ind_upper[a] - ind_lower[a] + 1)

\* q is the beginning of r
IsPrefix(q, r) == Len(q) <= Len(r) /\ SubSeq(r, 1, Len(q)) = q

\* the sorted orders that run fits
SortedGood == SelectSeq(srt_order_tell, LAMBDA o : InGoodOrders(o, good_orders))

\* C15: the order of the fits is a permutation of 0..norders-1 sorted by the mean
\* of the mid-grid transmission over [ind_lower, ind_upper], ascending; __init__
\* and run both go through the orders one at a time in that order.
C15_SortedFitOrder ==
    (phase # "new") =>
        /\ Len(srt_order_tell) = NOrders
        /\ Range(srt_order_tell) = Orders
        /\ \A i, j \in 1..NOrders :
              (i < j) => MeanLeq(srt_order_tell[i], srt_order_tell[j])
        /\ IsPrefix(init_visits, srt_order_tell)
        /\ (phase # "init_obj") => (init_visits = srt_order_tell)
        /\ (phase \in {"run", "assign"}) => IsPrefix(run_visits, SortedGood)
        /\ (phase \in {"ran", "saved"}) => (run_visits = SortedGood)

\* C15 witness: every order was fitted, in a sorted order that is not 0, 1, 2 and
\* with three different means.
C15_Witness ==
    /\ phase = "saved"
    /\ only_orders.kind = "None"
    /\ run_visits = srt_order_tell
    /\ init_visits = srt_order_tell
    /\ srt_order_tell[1] # 0
    /\ \A a, b \in Orders : (a # b) => ~(MeanLeq(a, b) /\ MeanLeq(b, a))

\* C16: two constructions with the same arguments and no seed give the same
\* seed_vec (from the default seed 777), so each order's fit gets the same seed
\* every time.
C16_SameSeeds ==
    /\ (inst = 2 /\ seed = NoSeed) => (seeds_agree # "different")
    /\ \A iord \in DOMAIN arg_dict_list :
          (arg_dict_list[iord] # None) => (Val(arg_dict_list[iord]).seed = seed_vec[iord])

(* ------------------------------------------------------------------ *)
(* The telluric model functions: interp_telluric_grid, conv_telluric, *)
(* shift_telluric, eval_telluric                                      *)
(* ------------------------------------------------------------------ *)
\* the largest tell_pad_pix
MaxPad == 2

Max(a, b) == IF a >= b THEN a ELSE b
Min(a, b) == IF a <= b THEN a ELSE b

\* What a call gives: a value returned, or an exception raised
Ret(v) == [raise |-> "", value |-> v]
Raise(e) == [raise |-> e, value |-> <<>>]

\* A 0-based array as the sequence of its samples
AsSeq(spec) == [i \in 1..NGrid |-> spec[i - 1]]

\* Python's a[start:stop] on a sequence: a negative index counts from the end,
\* an index past an end is cut to it
PySlice(a, start, stop) ==
    LET n == Len(a)
        s == IF start < 0 THEN Max(start + n, 0) ELSE Min(start, n)
        e == IF stop < 0 THEN Max(stop + n, 0) ELSE Min(stop, n)
    IN  IF s < e THEN SubSeq(a, s + 1, e) ELSE <<>>

\* start + step * np.arange(0, n)
Axis(start, step, n) == [i \in 1..n |-> start + step * (i - 1)]

\* wave_grid_full: the wavelengths of the grid file, log-spaced in the file and
\* evenly spaced here
WaveGridFull == [i \in 1..NGrid |-> 100 + 10 * (i - 1)]

\* The dictionary read_telluric_grid returns for the whole grid, with
\* tell_pad_pix scaled to the length of the grid
TellDict(shape, k, pad) ==
    [shape |-> shape,
     tell_grid |-> ReadGrid(shape, k).tell_grid,
     pressure_grid |-> Axis(10, 2, shape[1]),
     temp_grid |-> Axis(0, 3, shape[2]),
     h2o_grid |-> Axis(5, 2, shape[3]),
     airmass_grid |-> Axis(1, 1, shape[4]),
     wave_grid |-> WaveGridFull,
     tell_pad_pix |-> pad]

\* np.round(num / den) for den > 0: to the nearest integer, halves to the even one
RoundHalfEven(num, den) ==
    LET f == num \div den
        r == num % den
    IN  IF 2 * r < den THEN f
        ELSE IF 2 * r > den THEN f + 1
        ELSE IF f % 2 = 0 THEN f ELSE f + 1

\* int(np.round((v - g[0]) / (g[1] - g[0]))) if len(g) > 1 else 0
AxisIndex(v, g) == IF Len(g) > 1 THEN RoundHalfEven(v - g[1], g[2] - g[1]) ELSE 0

\* <<p_ind, t_ind, h_ind, a_ind>>
GridIndex(theta, dict) ==
    <<AxisIndex(theta[1], dict.pressure_grid), AxisIndex(theta[2], dict.temp_grid),
      AxisIndex(theta[3], dict.h2o_grid), AxisIndex(theta[4], dict.airmass_grid)>>

\* model_grid[p_ind, t_ind, h_ind, a_ind]: an index below zero counts from the
\* end of its axis, an index outside the axis raises
Lookup(ind, dict) ==
    IF \A i \in 1..4 : -dict.shape[i] <= ind[i] /\ ind[i] < dict.shape[i]
    THEN Ret(AsSeq(dict.tell_grid[[i \in 1..4 |->
                 IF ind[i] < 0 THEN ind[i] + dict.shape[i] ELSE ind[i]]]))
    ELSE Raise("IndexError")

\* a grid read with a linear blend of the two models next to the pressure
interp_telluric_grid_blend(theta, dict) ==
    LET pg == dict.pressure_grid
        ind == GridIndex(theta, dict)
    IN  IF Len(pg) > 1 /\ theta[1] >= pg[1] /\ theta[1] < pg[Len(pg)]
        THEN LET step == pg[2] - pg[1]
                 f == (theta[1] - pg[1]) \div step
                 r == (theta[1] - pg[1]) % step
                 below == Lookup([ind EXCEPT ![1] = f], dict)
                 above == Lookup([ind EXCEPT ![1] = f + 1], dict)
             IN  IF below.raise # "" \/ above.raise # "" THEN Raise("IndexError")
                 ELSE Ret([j \in 1..NGrid |->
                            (step - r) * below.value[j] + r * above.value[j]])
        ELSE Lookup(ind, dict)

interp_telluric_grid(theta, dict) == Lookup(GridIndex(theta, dict), dict)

\* The Gaussian of conv_telluric sampled on the grid: one sample at the highest
\* resolution, three below it
Kernel(res) == IF res >= 2 THEN <<1>> ELSE <<1, 2, 1>>

\* scipy.signal.convolve(a, g, mode='same') for a kernel of odd length
Convolve(a, g) ==
    LET c == (Len(g) + 1) \div 2
        A(i) == IF i >= 1 /\ i <= Len(a) THEN a[i] ELSE 0
        Term(i, k) == g[k] * A(i + c - k)
    IN  [i \in 1..Len(a) |->
            IF Len(g) = 1 THEN Term(i, 1) ELSE Term(i, 1) + Term(i, 2) + Term(i, 3)]

conv_telluric(tell_model, res) == Convolve(tell_model, Kernel(res))

\* a shift that begins one sample on
shift_telluric_next(tell_model, shift) ==
    [i \in 1..Len(tell_model) |-> tell_model[Max(1, Min(Len(tell_model), i + shift + 1))]]

\* np.interp(loglam + shift * dloglam, loglam, tell_model) for a shift of whole
\* samples: the model shift samples on, the end values beyond the ends
shift_telluric(tell_model, shift) ==
    [i \in 1..Len(tell_model) |-> tell_model[Max(1, Min(Len(tell_model), i + shift))]]

eval_telluric(theta_tell, dict, lower, upper) ==
    LET ntheta == Len(theta_tell)
        tellmodel_hires == interp_telluric_grid(SubSeq(theta_tell, 1, 4), dict)
        size == Len(dict.wave_grid)
        lo == IF lower = None THEN 0 ELSE Val(lower)
        up == IF upper = None THEN size - 1 ELSE Val(upper)
        ind_lower_pad == Max(lo - dict.tell_pad_pix, 0)
        ind_upper_pad == Min(up + dict.tell_pad_pix, size - 1)
        tell_pad_tuple == <<lo - ind_lower_pad, ind_upper_pad - up>>
    IN  IF tellmodel_hires.raise # "" THEN tellmodel_hires
        ELSE LET tellmodel_conv ==
                    conv_telluric(PySlice(tellmodel_hires.value, ind_lower_pad,
                                          ind_upper_pad + 1), theta_tell[5])
             IN  IF ntheta = 6
                 THEN Ret(PySlice(shift_telluric(tellmodel_conv, theta_tell[6]),
                                  tell_pad_tuple[1], 0 - tell_pad_tuple[2]))
                 ELSE Ret(PySlice(tellmodel_conv,
                                  tell_pad_tuple[1], 0 - tell_pad_tuple[2]))

(* ------------------------------------------------------------------ *)
(* read_telluric_grid with wave_min, wave_max and pad                 *)
(* ------------------------------------------------------------------ *)
Abs(x) == IF x < 0 THEN 0 - x ELSE x

\* np.argmin(np.abs(wave_grid_full - wave)): the first of the nearest samples
ArgminAbs(wave) ==
    CHOOSE i \in GridIdx :
        \A j \in GridIdx :
            /\ Abs(WaveGridFull[i + 1] - wave) <= Abs(WaveGridFull[j + 1] - wave)
            /\ j < i => Abs(WaveGridFull[i + 1] - wave) < Abs(WaveGridFull[j + 1] - wave)

\* The dictionary of the slice; the median of the differences of fewer than two
\* wavelengths is nan, and int(np.ceil(nan)) raises
read_telluric_grid(shape, k, wave_min, wave_max, pad) ==
    LET nspec_full == Len(WaveGridFull)
        lower == IF wave_min # None THEN ArgminAbs(Val(wave_min)) - pad ELSE 0
        upper == IF wave_max # None THEN ArgminAbs(Val(wave_max)) + pad ELSE nspec_full
        wave_grid == PySlice(WaveGridFull, lower, upper)
        model_grid == [g \in GridPoints(shape) |->
                          PySlice(AsSeq(ReadGrid(shape, k).tell_grid[g]), lower, upper)]
    IN  IF Len(wave_grid) < 2 THEN Raise("ValueError")
        ELSE Ret([TellDict(shape, k, MaxPad) EXCEPT !.wave_grid = wave_grid,
                                                     !.tell_grid = model_grid])

(* ------------------------------------------------------------------ *)
(* tellfit_chi2                                                       *)
(* ------------------------------------------------------------------ *)
\* np.inf, told from every loss, none of which is negative
Infinity == -1

\* The shape two arrays broadcast to, or -1 where numpy raises
BroadcastLen(m, n) == IF m = n THEN m ELSE IF m = 1 THEN n ELSE IF n = 1 THEN m ELSE -1

\* sample i of an array broadcast to a longer one
Sample(a, i) == IF Len(a) = 1 THEN a[1] ELSE a[i]

\* np.square(scipy.special.huber(2.0, r)), in quarters
HuberSquared(r) == IF Abs(r) <= 2 THEN r * r * r * r ELSE 16 * (Abs(r) - 1) * (Abs(r) - 1)

RECURSIVE SumSeq(_)
SumSeq(a) == IF a = <<>> THEN 0 ELSE Head(a) + SumSeq(Tail(a))

\* obj_model_func gives (obj_model, modelmask); flux_ivar is one at every pixel
tellfit_chi2(theta_tell, flux, thismask, obj_model, modelmask, dict, lower, upper) ==
    LET tell_model == eval_telluric(theta_tell, dict, lower, upper)
    IN  IF tell_model.raise # "" THEN tell_model
        ELSE IF \A i \in 1..Len(modelmask) : ~modelmask[i] THEN Ret(Infinity)
        ELSE LET n1 == BroadcastLen(Len(tell_model.value), Len(obj_model))
                 n2 == IF n1 < 0 THEN -1 ELSE BroadcastLen(Len(flux), n1)
                 n3 == IF n2 < 0 THEN -1 ELSE BroadcastLen(Len(thismask), n2)
             IN  IF n3 < 0 THEN Raise("ValueError")
                 ELSE LET totalmask == [i \in 1..n3 |-> thismask[i] /\ modelmask[i]]
                          chi_vec == [i \in 1..n3 |->
                              IF totalmask[i]
                              THEN Sample(flux, i) - Sample(tell_model.value, i) * Sample(obj_model, i)
                              ELSE 0]
                      IN  Ret(SumSeq([i \in 1..n3 |->
                                 IF totalmask[i] THEN HuberSquared(chi_vec[i]) ELSE 0]))

(* ------------------------------------------------------------------ *)
(* mask_star_lines; wavelengths in tenths of an Angstrom              *)
(* ------------------------------------------------------------------ *)
DefaultMaskWidth == 100

lines_balm == <<38364, 39696, 38901, 41028, 41028, 43416, 48627, 54070, 65646, 82248, 82392>>
lines_pasc == <<82036, 84403, 84696, 85048, 85477, 86008, 86674, 87529,
                88652, 90174, 92290, 95460, 100494, 109381, 128181, 187510>>
lines_brac == <<145840, 181740, 194460, 216550, 262520, 405120>>
lines_pfund == <<227880, 329610, 373950, 465250, 745780>>

\* the loops with a mask that leaves out the line itself
MaskLinesOpen(mask_star, wave_star, lines, mask_width) ==
    [i \in 1..Len(wave_star) |->
        mask_star[i] /\ \A k \in 1..Len(lines) :
            ~(Abs(wave_star[i] - lines[k]) <= mask_width /\ wave_star[i] # lines[k])]

\* for line in lines: mask_star[np.abs(wave_star - line) <= mask_width] = False
RECURSIVE MaskLines(_, _, _, _)
MaskLines(mask_star, wave_star, lines, mask_width) ==
    IF lines = <<>> THEN mask_star
    ELSE MaskLines([i \in 1..Len(wave_star) |->
                       IF Abs(wave_star[i] - Head(lines)) <= mask_width
                       THEN FALSE ELSE mask_star[i]],
                   wave_star, Tail(lines), mask_width)

mask_star_lines(wave_star, mask_width) ==
    MaskLines(MaskLines(MaskLines(MaskLines([i \in 1..Len(wave_star) |-> TRUE],
        wave_star, lines_balm, mask_width), wave_star, lines_pasc, mask_width),
        wave_star, lines_brac, mask_width), wave_star, lines_pfund, mask_width)

(* ------------------------------------------------------------------ *)
(* sensfunc_telluric: polyorder_vec, then the engine                  *)
(* ------------------------------------------------------------------ *)
Scalar(v) == [kind |-> "scalar", val |-> v]
Array(a) == [kind |-> "array", val |-> a]

\* np.size(polyorder)
Size(polyorder) == IF polyorder.kind = "scalar" THEN 1 ELSE Len(polyorder.val)

\* np.full(norders, polyorder) for one value, given bare or in an array
Full(norders, polyorder) ==
    [i \in 1..norders |-> IF polyorder.kind = "scalar" THEN polyorder.val
                          ELSE polyorder.val[1]]

\* the engine sensfunc_telluric constructs with obj_params, runs and returns
TelObj(polyorder_vec) == [polyorder_vec |-> polyorder_vec]

\* a length check that does not stop the function
sensfunc_telluric_lenient(polyorder, norders) ==
    IF Size(polyorder) > 1 THEN Ret(TelObj(polyorder.val))
    ELSE IF Size(polyorder) = 0 THEN Raise("ValueError")
    ELSE Ret(TelObj(Full(norders, polyorder)))

\* msgs.error raises; np.full raises for an empty array
sensfunc_telluric(polyorder, norders) ==
    IF Size(polyorder) > 1
    THEN IF Size(polyorder) # norders THEN Raise("PypeItError")
         ELSE Ret(TelObj(polyorder.val))
    ELSE IF Size(polyorder) = 0 THEN Raise("ValueError")
    ELSE Ret(TelObj(Full(norders, polyorder)))

(* ------------------------------------------------------------------ *)
(* The flattening of the line list (dev_algorithms/arcs2d)            *)
(* ------------------------------------------------------------------ *)
\* the entries of a row of the line list, its zeros included
MaxLines == 2

\* Order vector
order == <<3, 4, 5, 6, 7, 8>>

\* row[np.nonzero(row)]
NonZero(row) == SelectSeq(row, LAMBDA x : x # 0)

\* The loop over all_pix.keys(): the four vectors grow by the lines of order
\* orders[index]
RECURSIVE FlattenLoop(_, _, _, _)
FlattenLoop(full, orders, index, acc) ==
    IF index > Len(orders) THEN acc
    ELSE LET all_pix == NonZero(full[2 * index - 1])
             all_wv == NonZero(full[2 * index])
         IN  FlattenLoop(full, orders, index + 1,
                [all_pix_pypeit |-> acc.all_pix_pypeit \o all_pix,
                 t_pypeit |-> acc.t_pypeit \o [i \in 1..Len(all_pix) |-> orders[index]],
                 all_wv_pypeit |-> acc.all_wv_pypeit \o all_wv,
                 npix_pypeit |-> acc.npix_pypeit
                                  \o [i \in 1..Len(all_pix) |-> Len(all_pix)]])

NoLines == [all_pix_pypeit |-> <<>>, t_pypeit |-> <<>>, all_wv_pypeit |-> <<>>,
            npix_pypeit |-> <<>>]

\* lines tagged with the index of their order
flatten_index(full) == FlattenLoop(full, [i \in 1..Len(order) |-> i - 1], 1, NoLines)

flatten(full) == FlattenLoop(full, order, 1, NoLines)

(* ------------------------------------------------------------------ *)
(* qso_telluric: the telluric correction of the spectrum              *)
(* ------------------------------------------------------------------ *)
\* a boolean array in arithmetic
AsInt(b) == IF b THEN 1 ELSE 0

\* a quotient of two floats, kept as the pair; with den = 0 it is inf, -inf or nan
Quotient(num, den) == [num |-> num, den |-> den]

\* a division by the transmission as it is
correction_unguarded(flux, ivar, mask, telluric) ==
    [flux_corr |-> [i \in 1..Len(flux) |-> Quotient(flux[i], telluric[i])],
     ivar_corr |-> [i \in 1..Len(flux) |->
                       AsInt(telluric[i] > 0) * ivar[i] * telluric[i] * telluric[i]],
     mask_corr |-> [i \in 1..Len(flux) |-> (telluric[i] > 0) /\ mask[i]]]

\* flux_corr, ivar_corr, mask_corr
correction(flux, ivar, mask, telluric) ==
    [flux_corr |-> [i \in 1..Len(flux) |->
                       Quotient(flux[i], telluric[i] + AsInt(telluric[i] = 0))],
     ivar_corr |-> [i \in 1..Len(flux) |->
                       AsInt(telluric[i] > 0) * ivar[i] * telluric[i] * telluric[i]],
     mask_corr |-> [i \in 1..Len(flux) |-> (telluric[i] > 0) /\ mask[i]]]

(* ------------------------------------------------------------------ *)
(* One call of a function of the library                                *)
(* ------------------------------------------------------------------ *)
GridShape == <<MaxAxis, MaxAxis, 1, MaxAxis>>
Dicts == {TellDict(GridShape, k, pad) : k \in 0..1, pad \in 1..MaxPad}
IndArgs == {None} \cup {Some(i) : i \in GridIdx}

\* (pressure, temperature, humidity, airmass) inside the grid, where the bounds
\* of the fit keep them, on the grid points and between them
InGridTheta == {<<p, t, h, a>> : p \in 10..12, t \in {0, 2}, h \in {5}, a \in {1, 2}}
\* and outside it
AnyTheta == {<<p, t, h, a>> : p \in 8..15, t \in 0..3, h \in {5, 9}, a \in {1, 2}}
TellTheta == {th \o <<res>> : th \in InGridTheta, res \in 1..2}
              \cup {th \o <<res, shift>> : th \in InGridTheta, res \in 1..2, shift \in {-1, 0, 1}}

Masks(n) == [1..n -> BOOLEAN]

EvalCalls ==
    {[fn |-> "eval_telluric", theta_tell |-> th, tell_dict |-> d,
      ind_lower |-> lo, ind_upper |-> up] :
        th \in TellTheta, d \in Dicts, lo \in IndArgs, up \in IndArgs}

ReadCalls ==
    {[fn |-> "read_telluric_grid", shape |-> GridShape, k |-> k,
      wave_min |-> lo, wave_max |-> up, pad |-> pad] :
        k \in 0..1, lo \in {None} \cup {Some(w) : w \in {96, 100, 105, 112}},
        up \in {None} \cup {Some(w) : w \in {104, 109, 115, 120, 131}}, pad \in 0..MaxPad}

InterpCalls ==
    {[fn |-> "interp_telluric_grid", theta |-> th, tell_dict |-> d] :
        th \in AnyTheta, d \in Dicts}

\* the arrays of the fit have one pixel for each grid sample of the order
Chi2Calls ==
    UNION {{[fn |-> "tellfit_chi2", theta_tell |-> <<10, 0, 5, 1, res, 0>>,
             flux |-> f, thismask |-> tm, obj_model |-> [i \in 1..(r[2] - r[1] + 1) |-> 1],
             modelmask |-> mm, tell_dict |-> TellDict(GridShape, 1, 1),
             ind_lower |-> Some(r[1]), ind_upper |-> Some(r[2])] :
                res \in 1..2,
                f \in [1..(r[2] - r[1] + 1) -> {0, 3}],
                tm \in Masks(r[2] - r[1] + 1), mm \in Masks(r[2] - r[1] + 1)} :
           r \in {q \in GridIdx \X GridIdx : q[1] <= q[2]}}

\* wavelengths at, next to and far from the lines
StarWaves == {38264, 50000, 65146, 65545, 65546, 65646, 65746, 65747, 66146,
              82136, 82320, 82493, 745780, 745881}

MaskCalls ==
    {[fn |-> "mask_star_lines", wave_star |-> w, mask_width |-> mw] :
        w \in UNION {[1..n -> StarWaves] : n \in 1..2},
        mw \in {None, Some(0), Some(72), Some(500)}}

\* polyorder as a number or as an array of up to one entry more than there are
\* orders; norders is 1 for a 1-d spectrum
SensfuncCalls ==
    {[fn |-> "sensfunc_telluric", polyorder |-> p, norders |-> n] :
        p \in {Scalar(v) : v \in {3, 8}}
              \cup {Array(a) : a \in UNION {[1..m -> {3, 8}] : m \in 0..(NOrders + 1)}},
        n \in 1..NOrders}

\* A line list: for each order a row of pixels and a row of wavelengths, each
\* line a pixel and its wavelength, zero where the order has no line; every
\* order has a line
LineLists ==
    {[r \in 1..(2 * Len(order)) |->
        [p \in 1..MaxLines |->
            IF p \in has[(r + 1) \div 2]
            THEN (IF r % 2 = 1 THEN 0 ELSE 10000) + 100 * ((r + 1) \div 2) + p
            ELSE 0]] :
     has \in [1..Len(order) -> (SUBSET (1..MaxLines)) \ {{}}]}

FlattenCalls == {[fn |-> "flatten", full |-> f] : f \in LineLists}

\* spectra of one and two pixels, the transmission zero or positive
QsoCalls ==
    UNION {{[fn |-> "qso_telluric", flux |-> f, ivar |-> v, mask |-> m, telluric |-> t] :
               f \in [1..n -> {-3, 4}], v \in [1..n -> {0, 2}], m \in Masks(n),
               t \in [1..n -> 0..2]} : n \in 1..2}

\* the most object-model parameters an order has (bounds the calls checked)
MaxTheta == 3

\* np.zeros(n)
Zeros(n) == [i \in 1..n |-> 0]

\* a[start:stop] = values for 1-d arrays: the values fill the slice when they are
\* as many as its entries, one value is broadcast to every entry, and numpy
\* raises ValueError ("could not broadcast input array") otherwise
SetSlice(a, start, stop, values) ==
    LET n == Len(a)
        s == IF start < 0 THEN Max(start + n, 0) ELSE Min(start, n)
        e == IF stop < 0 THEN Max(stop + n, 0) ELSE Min(stop, n)
        len == Max(e - s, 0)
    IN  IF Len(values) # len /\ Len(values) # 1
        THEN Raise("ValueError")
        ELSE Ret([i \in 1..n |-> IF i > s /\ i <= e THEN Sample(values, i - s) ELSE a[i]])

RECURSIVE max_ntheta_obj_from(_, _)
\* self.max_ntheta_obj = np.fmax(self.max_ntheta_obj, len(bounds_obj)), over the
\* orders, from 0
max_ntheta_obj_from(nbounds, i) ==
    IF i = 0 THEN 0 ELSE Max(max_ntheta_obj_from(nbounds, i - 1), nbounds[i])

max_ntheta_obj(nbounds) == max_ntheta_obj_from(nbounds, Len(nbounds))

\* init_output: out_table['OBJ_THETA'] = np.zeros((norders, max_ntheta_obj));
\* assign_output: ntheta_iord = len(theta_obj_list[iord]);
\* out_table['OBJ_THETA'][iord][0:ntheta_iord+1] = theta_obj_list[iord]
assign_output(nbounds, theta_obj) ==
    SetSlice(Zeros(max_ntheta_obj(nbounds)), 0, Len(theta_obj) + 1, theta_obj)

\* The parameter vectors of the object model of an order with n parameters
ThetaObj(n) == [1..n -> {1, 2}]

\* The engine with two orders, order iord of which has just been fitted: per
\* order the number of parameters its object model was initialised with, and the
\* parameters fitted for iord
AssignCalls ==
    {[fn |-> "assign_output", nbounds |-> nb, iord |-> io, theta_obj |-> th] :
        nb \in [1..2 -> 0..MaxTheta], io \in 1..2, th \in UNION {ThetaObj(n) : n \in 0..MaxTheta}}

\* the longest axis of the grids whose indices are checked
MaxAxisLen == 3

\* Quantities are counted in quarters here, so that the default airmass_guess
\* and the median of an axis of even length are whole numbers
AirmassGuess == 6

\* np.median of an axis (ascending): the middle value, or the mean of the two
\* in the middle
Median(g) ==
    IF Len(g) % 2 = 1 THEN g[(Len(g) + 1) \div 2]
    ELSE (g[Len(g) \div 2] + g[Len(g) \div 2 + 1]) \div 2

\* The axes read_telluric_grid builds for a grid of the given shape whose
\* airmass axis starts at am0 with step dam (a single airmass for NAM = 1)
GuessDict(shape, am0, dam) ==
    [shape |-> shape,
     pressure_grid |-> Axis(20, 2, shape[1]),
     temp_grid |-> Axis(0, 2, shape[2]),
     h2o_grid |-> Axis(8, 4, shape[3]),
     airmass_grid |-> IF shape[4] > 1 THEN Axis(am0, dam, shape[4]) ELSE Axis(am0, 1, 1)]

\* get_tell_guess, without resln_guess and the zero shift
get_tell_guess(dict, airmass_guess) ==
    <<Median(dict.pressure_grid), Median(dict.temp_grid), Median(dict.h2o_grid),
      airmass_guess>>

\* get_bounds_tell, without the bounds of the resolution and of the shift
get_bounds_tell(dict) ==
    [i \in 1..4 |->
        LET g == <<dict.pressure_grid, dict.temp_grid, dict.h2o_grid, dict.airmass_grid>>[i]
        IN  <<g[1], g[Len(g)]>>]

\* the parameter vectors inside the bounds
InBounds(bounds) ==
    {<<p, t, h, a>> : p \in bounds[1][1]..bounds[1][2], t \in bounds[2][1]..bounds[2][2],
                      h \in bounds[3][1]..bounds[3][2], a \in bounds[4][1]..bounds[4][2]}

GuessDicts ==
    {GuessDict(<<a, b, 1, c>>, am0, dam) :
        a \in 1..MaxAxisLen, b \in 1..MaxAxisLen, c \in 1..MaxAxisLen,
        am0 \in {4, 8}, dam \in {1, 2, 4}}

\* interp_telluric_grid called with the guess of the engine (__init__, step 5)
\* and with a vector the optimizer draws inside its bounds
GuessCalls ==
    {[fn |-> "grid_index", of |-> "tell_guess", theta |-> get_tell_guess(d, AirmassGuess),
      tell_dict |-> d] : d \in GuessDicts}
    \cup UNION {{[fn |-> "grid_index", of |-> "bounds_tell", theta |-> th, tell_dict |-> d] :
                   th \in InBounds(get_bounds_tell(d))} : d \in GuessDicts}

\* the longest template pypeit file
MaxTemplate == 4

\* A line of a pypeit file is the sequence of the words it is written from and
\* whether it ends with a newline. The lines of the templates:
TemplateLine(text) == [text |-> text, eol |-> TRUE]
DataRead == TemplateLine(<<"data read">>)
DataEnd == TemplateLine(<<"data end">>)
PathLine == TemplateLine(<<"path", "/old/RAW_DATA/instr/setup">>)
BareLine == TemplateLine(<<"/old/RAW_DATA/instr/setup">>)
FlatField == TemplateLine(<<"[[", "flatfield", "]]">>)
PixelFlat == TemplateLine(<<"pixelflat_file", "=", "/old/CALIBS", "flat.fits">>)
OtherLine == TemplateLine(<<"spectrograph", "=", "instr">>)

\* 'word' in line
Contains(line, word) == \E i \in 1..Len(line.text) : line.text[i] = word

\* os.path.split(line)[1]: what follows the last separator, with the newline of
\* the line if it has one
Basename(line) == [text |-> <<line.text[Len(line.text)]>>, eol |-> line.eol]

\* a new path line that always has the path prefix
NewDataPathPrefixed(line) ==
    [text |-> <<"path", "raw_data/instr/setup/">>, eol |-> TRUE]

\* newdpth = ' path ' if 'path' in lines[kk+1] else ' ';
\* newdpth += os.path.join(raw_data, instr, setup, subdir); newdpth += '\n'
NewDataPath(line) ==
    [text |-> (IF Contains(line, "path") THEN <<"path">> ELSE <<>>)
                 \o <<"raw_data/instr/setup/">>,
     eol |-> TRUE]

\* newcpth = os.path.join(dev_path, 'CALIBS', os.path.split(lines[kk+1])[1]);
\* '        pixelflat_file = {0}'.format(newcpth)
NewPixelFlat(line) ==
    [text |-> <<"pixelflat_file", "=", "dev_path/CALIBS">> \o Basename(line).text,
     eol |-> Basename(line).eol]

RECURSIVE FixLoop(_, _)
\* for kk, iline in enumerate(lines): the list is changed while it is walked, and
\* lines[kk+1] past the end raises IndexError
FixLoop(lines, kk) ==
    IF kk > Len(lines) THEN Ret(lines)
    ELSE IF Contains(lines[kk], "data read")
    THEN IF kk + 1 > Len(lines) THEN Raise("IndexError")
         ELSE FixLoop([lines EXCEPT ![kk + 1] = NewDataPath(@)], kk + 1)
    ELSE IF Contains(lines[kk], "flatfield")
    THEN IF kk + 1 > Len(lines) THEN Raise("IndexError")
         ELSE IF Contains(lines[kk + 1], "pixelflat_file")
         THEN FixLoop([lines EXCEPT ![kk + 1] = NewPixelFlat(@)], kk + 1)
         ELSE FixLoop(lines, kk + 1)
    ELSE FixLoop(lines, kk + 1)

\* fix_pypeit_file_directory for a template that exists: the lines written
fix_pypeit_file_directory(lines) == FixLoop(lines, 1)

\* the lines a file has when it is written with writelines and read again: a
\* line without a newline runs into the next
FileLineCount(lines) ==
    Cardinality({i \in 1..Len(lines) : lines[i].eol})
        + (IF lines # <<>> /\ ~lines[Len(lines)].eol THEN 1 ELSE 0)

\* The templates: a line "data read" is followed by the line of the raw-data
\* path, with or without the path prefix, the file does not end with the header
\* of the flatfield block, and only the last line may lack its newline
Templates ==
    LET kinds == {DataRead, DataEnd, PathLine, BareLine, FlatField, PixelFlat, OtherLine}
        wellformed(t) ==
            /\ \A k \in 1..Len(t) :
                  Contains(t[k], "data read") =>
                      (k < Len(t) /\ t[k + 1] \in {PathLine, BareLine})
            /\ ~Contains(t[Len(t)], "flatfield")
        complete == {t \in UNION {[1..n -> kinds] : n \in 1..MaxTemplate} : wellformed(t)}
    IN  complete \cup {[t EXCEPT ![Len(t)].eol = FALSE] : t \in complete}

FixCalls == {[fn |-> "fix_pypeit_file_directory", lines |-> t] : t \in Templates}

GridInit ==
    /\ OnlyGrid
    /\ gpc = "called"
    /\ ret = Ret(<<>>)
    /\ \/ call \in EvalCalls
       \/ call \in ReadCalls
       \/ call \in InterpCalls
       \/ call \in Chi2Calls
       \/ call \in MaskCalls
       \/ call \in SensfuncCalls
       \/ call \in FlattenCalls
       \/ call \in QsoCalls
       \/ call \in {c \in AssignCalls : Len(c.theta_obj) = c.nbounds[c.iord]}
       \/ call \in GuessCalls
       \/ call \in FixCalls

EvalTelluric ==
    /\ gpc = "called"
    /\ call.fn = "eval_telluric"
    /\ ret' = eval_telluric(call.theta_tell, call.tell_dict, call.ind_lower, call.ind_upper)
    /\ gpc' = "returned"
    /\ UNCHANGED <<call, otherThanGrid>>

ReadTelluricGrid ==
    /\ gpc = "called"
    /\ call.fn = "read_telluric_grid"
    /\ ret' = read_telluric_grid(call.shape, call.k, call.wave_min, call.wave_max, call.pad)
    /\ gpc' = "returned"
    /\ UNCHANGED <<call, otherThanGrid>>

InterpTelluricGrid ==
    /\ gpc = "called"
    /\ call.fn = "interp_telluric_grid"
    /\ ret' = interp_telluric_grid(call.theta, call.tell_dict)
    /\ gpc' = "returned"
    /\ UNCHANGED <<call, otherThanGrid>>

TellfitChi2 ==
    /\ gpc = "called"
    /\ call.fn = "tellfit_chi2"
    /\ ret' = tellfit_chi2(call.theta_tell, call.flux, call.thismask, call.obj_model,
                           call.modelmask, call.tell_dict, call.ind_lower, call.ind_upper)
    /\ gpc' = "returned"
    /\ UNCHANGED <<call, otherThanGrid>>

MaskStarLines ==
    /\ gpc = "called"
    /\ call.fn = "mask_star_lines"
    /\ ret' = Ret(mask_star_lines(call.wave_star,
                     IF call.mask_width = None THEN DefaultMaskWidth
                     ELSE Val(call.mask_width)))
    /\ gpc' = "returned"
    /\ UNCHANGED <<call, otherThanGrid>>

SensfuncTelluric ==
    /\ gpc = "called"
    /\ call.fn = "sensfunc_telluric"
    /\ ret' = sensfunc_telluric(call.polyorder, call.norders)
    /\ gpc' = "returned"
    /\ UNCHANGED <<call, otherThanGrid>>

FlattenLines ==
    /\ gpc = "called"
    /\ call.fn = "flatten"
    /\ ret' = Ret(flatten(call.full))
    /\ gpc' = "returned"
    /\ UNCHANGED <<call, otherThanGrid>>

\* qso_telluric, after the engine has run and saved: the correction with
\* TELLURIC of the output table
QsoTelluric ==
    /\ gpc = "called"
    /\ call.fn = "qso_telluric"
    /\ ret' = Ret(correction(call.flux, call.ivar, call.mask, call.telluric))
    /\ gpc' = "returned"
    /\ UNCHANGED <<call, otherThanGrid>>

\* assign_output(iord), as far as OBJ_THETA goes, for an engine whose order iord
\* was fitted with as many parameters as it was initialised with
AssignOutputRow ==
    /\ gpc = "called"
    /\ call.fn = "assign_output"
    /\ ret' = assign_output(call.nbounds, call.theta_obj)
    /\ gpc' = "returned"
    /\ UNCHANGED <<call, otherThanGrid>>

\* interp_telluric_grid, up to the four indices it reads the grid at
GridIndices ==
    /\ gpc = "called"
    /\ call.fn = "grid_index"
    /\ ret' = Ret(GridIndex(call.theta, call.tell_dict))
    /\ gpc' = "returned"
    /\ UNCHANGED <<call, otherThanGrid>>

\* fix_pypeit_file_directory(dev_path, raw_data, instr, setup, rdxdir), the
\* template being lines
FixPypeItFileDirectory ==
    /\ gpc = "called"
    /\ call.fn = "fix_pypeit_file_directory"
    /\ ret' = fix_pypeit_file_directory(call.lines)
    /\ gpc' = "returned"
    /\ UNCHANGED <<call, otherThanGrid>>

GridNext ==
    \/ EvalTelluric
    \/ ReadTelluricGrid
    \/ InterpTelluricGrid
    \/ TellfitChi2
    \/ MaskStarLines
    \/ SensfuncTelluric
    \/ FlattenLines
    \/ QsoTelluric
    \/ AssignOutputRow
    \/ GridIndices
    \/ FixPypeItFileDirectory

GridSpec == GridInit /\ [][GridNext]_vars

Returned(fn) == gpc = "returned" /\ call.fn = fn

\* C17: for 0 <= ind_lower <= ind_upper <= ngrid-1, the defaults included,
\* eval_telluric returns ind_upper - ind_lower + 1 samples
C17_EvalLength ==
    Returned("eval_telluric") =>
        LET lo == IF call.ind_lower = None THEN 0 ELSE Val(call.ind_lower)
            up == IF call.ind_upper = None THEN NGrid - 1 ELSE Val(call.ind_upper)
        IN  lo <= up => ret.raise = "" /\ Len(ret.value) = up - lo + 1

\* C18: where read_telluric_grid returns for a wave_min and a wave_max, the
\* wavelengths start at the sample nearest wave_min less pad, not before the
\* first sample of the grid, end pad samples after the one nearest wave_max,
\* not after the last, and every model has the same samples
C18_ReadSlice ==
    (Returned("read_telluric_grid") /\ call.wave_min # None /\ call.wave_max # None
        /\ ret.raise = "") =>
        LET lower == Max(ArgminAbs(Val(call.wave_min)) - call.pad, 0)
            upper == Min(ArgminAbs(Val(call.wave_max)) + call.pad, NGrid)
        IN  /\ ret.value.wave_grid = SubSeq(WaveGridFull, lower + 1, upper)
            /\ Len(ret.value.wave_grid) = upper - lower
            /\ \A g \in GridPoints(call.shape) :
                  ret.value.tell_grid[g] =
                      SubSeq(AsSeq(ReadGrid(call.shape, call.k).tell_grid[g]), lower + 1, upper)

\* C19: tellfit_chi2 returns infinity where modelmask is False at every pixel,
\* and a finite sum where it is not
C19_Chi2Infinity ==
    Returned("tellfit_chi2") =>
        IF \A i \in 1..Len(call.modelmask) : ~call.modelmask[i]
        THEN ret = Ret(Infinity)
        ELSE ret.raise = "" /\ ret.value # Infinity /\ ret.value >= 0

\* C20: interp_telluric_grid gives, for every parameter vector with the grid
\* indices of the call's, what it gave the call, and that is a model of the grid
C20_NearestLookup ==
    Returned("interp_telluric_grid") =>
        /\ \A th \in AnyTheta :
              GridIndex(th, call.tell_dict) = GridIndex(call.theta, call.tell_dict)
                  => interp_telluric_grid(th, call.tell_dict) = ret
        /\ ret.raise = "" =>
              \E g \in GridPoints(call.tell_dict.shape) :
                  ret.value = AsSeq(call.tell_dict.tell_grid[g])

\* a pressure half way between two grid points gave the model of the lower one
C20_Witness ==
    /\ Returned("interp_telluric_grid")
    /\ call.theta = <<11, 2, 5, 2>>
    /\ ret.raise = ""
    /\ ret.value = AsSeq(call.tell_dict.tell_grid[<<0, 1, 0, 1>>])

\* C21: eval_telluric gives a 5-entry parameter vector and the 6-entry vector
\* with a zero shift appended the same spectrum, for the same grid point,
\* resolution and index range
C21_ZeroShift ==
    (Returned("eval_telluric") /\ Len(call.theta_tell) = 5) =>
        eval_telluric(call.theta_tell \o <<0>>, call.tell_dict,
                      call.ind_lower, call.ind_upper) = ret

\* a 5-entry call returned samples that a shift of one sample would have changed
C21_Witness ==
    /\ Returned("eval_telluric")
    /\ Len(call.theta_tell) = 5
    /\ ret.raise = ""
    /\ ret.value # <<>>
    /\ eval_telluric(call.theta_tell \o <<1>>, call.tell_dict,
                     call.ind_lower, call.ind_upper) # ret

AllStarLines == lines_balm \o lines_pasc \o lines_brac \o lines_pfund

\* C22: mask_star_lines returns a mask of the shape of wave_star, False exactly
\* at the wavelengths within mask_width of a listed line; with the default
\* width it is False within 10 of 6564.6 and True 50 below and above it
C22_StarMask ==
    Returned("mask_star_lines") =>
        LET mw == IF call.mask_width = None THEN DefaultMaskWidth ELSE Val(call.mask_width)
            w == call.wave_star
        IN  /\ ret.raise = ""
            /\ Len(ret.value) = Len(w)
            /\ \A i \in 1..Len(w) :
                  /\ ret.value[i] = ~(\E k \in 1..Len(AllStarLines) :
                                         Abs(w[i] - AllStarLines[k]) <= mw)
                  /\ (call.mask_width = None /\ Abs(w[i] - 65646) <= 100) => ~ret.value[i]
                  /\ (call.mask_width = None /\ w[i] \in {65146, 66146}) => ret.value[i]

\* a default-width call masked 6564.6 and its neighbours 10 away and kept the
\* wavelength 50 away
C22_Witness ==
    /\ Returned("mask_star_lines")
    /\ call.mask_width = None
    /\ \E w \in {65546, 65646, 65746} : call.wave_star = <<w, 66146>>
    /\ ret.value = <<FALSE, TRUE>>

\* C23: sensfunc_telluric gives the engine one entry of a scalar polyorder per
\* order, an array of norders entries as it is, and for an array of more than
\* one entry and another length raises with no engine constructed or run
C23_PolyorderVec ==
    Returned("sensfunc_telluric") =>
        LET p == call.polyorder
        IN  /\ p.kind = "scalar" =>
                  /\ ret.raise = ""
                  /\ ret.value.polyorder_vec = [i \in 1..call.norders |-> p.val]
            /\ (p.kind = "array" /\ Len(p.val) = call.norders) =>
                  /\ ret.raise = ""
                  /\ ret.value.polyorder_vec = p.val
            /\ (p.kind = "array" /\ Len(p.val) > 1 /\ Len(p.val) # call.norders) =>
                  ret = Raise("PypeItError")

\* an array one entry short of the orders was refused
C23_Witness ==
    /\ Returned("sensfunc_telluric")
    /\ call.polyorder.kind = "array"
    /\ Len(call.polyorder.val) = 2
    /\ call.norders = 3
    /\ ret.raise = "PypeItError"

\* an array as long as the orders went to the engine as it is
C23_WitnessArray ==
    /\ Returned("sensfunc_telluric")
    /\ call.polyorder = Array(<<3, 8, 3>>)
    /\ ret.raise = ""
    /\ ret.value.polyorder_vec = <<3, 8, 3>>

\* the position is one main has before build_test_setup appends the reduce tests
BeforeTests == bpc \in {"main", "check", "pypeit_file", "ValueError", "FileNotFoundError"}

CountOf(ts, kind) == Cardinality({i \in DOMAIN ts : ts[i] = kind})

\* C24: with the template pypeit file of a setup that needs one missing, main
\* raises before a test is appended and before the threads are started; a
\* missing standards template raises nothing, and the setup then has one
\* reduce test fewer
C24_MissingTemplate ==
    /\ (NeedsTemplate(setup) /\ "pypeit" \notin templates) =>
          /\ BeforeTests
          /\ setup.tests = <<>>
    /\ (~NeedsTemplate(setup) \/ "pypeit" \in templates) =>
          bpc \notin {"ValueError", "FileNotFoundError"}
    /\ bpc = "threads" =>
          CountOf(setup.tests, "PypeItReduceTest") =
              IF pargs.prep_only \/ flg_after \/ flg_ql THEN 0
              ELSE 1 + (IF setup.std_pyp_file # "None" THEN 1 ELSE 0)
                     + (IF setup.instr = "keck_lris_red" THEN 1 ELSE 0)
    /\ (bpc = "threads" /\ NeedsTemplate(setup)) =>
          (setup.std_pyp_file # "None") = ("std" \in templates)

\* build_test_setup raised for a missing template, the run not being one of a
\* group of development setups
C24_Witness ==
    /\ bpc = "FileNotFoundError"
    /\ "pypeit" \notin templates
    /\ "std" \in templates
    /\ setup.tests = <<>>

\* the threads were started for a setup with no standards template, with its
\* one reduce test
C24_WitnessStd ==
    /\ bpc = "threads"
    /\ NeedsTemplate(setup)
    /\ templates = {"pypeit"}
    /\ setup.tests = <<"PypeItReduceTest">>

\* The characters of an extension as os.path.splitext gives it: the dot, then
\* the letters
ExtText(file_ext) ==
    IF file_ext = "" THEN <<>>
    ELSE IF file_ext = ".log" THEN <<".", "log">>
    ELSE <<".", "txt">>

\* The name a path spells, piece after piece
Text(f) ==
    IF Len(f) = 5 THEN <<f[1], ".", f[3], ".">> \o ExtText(f[5])
    ELSE <<f[1]>> \o ExtText(f[2])

\* C25: where the log of a test exists, the name returned for it is the name
\* with a number put before the extension, <instrument>_<setup>.<suffix>.<n>.log,
\* ending in the one extension .log
C25_LogName ==
    \A i \in 1..Len(calls) :
        (file[2] = ".log" /\ file \in calls[i].exists) =>
            \E n \in 2..(MaxNum + MaxCalls + 1) :
                Text(calls[i].result) = <<file[1], ".", n, ".", "log">>

\* the number of lines of order k of a line list, and of the orders before it
LineCount(full, k) == Len(NonZero(full[2 * k - 1]))
LinesBefore(full, k) == SumSeq([m \in 1..(k - 1) |-> LineCount(full, m)])

\* C26: the flattened pixels, wavelengths, order tags and order sizes have each
\* as many entries as the orders have non-zero pixels; entry by entry they are
\* the pixel and the wavelength of a line, the number of its order and the
\* number of lines of its order; the tags take the values 3..8
C26_Flattened ==
    Returned("flatten") =>
        LET full == call.full
            v == ret.value
            total == LinesBefore(full, Len(order) + 1)
        IN  /\ Len(order) = 6 /\ Len(full) = 12
            /\ Len(v.all_pix_pypeit) = total /\ Len(v.all_wv_pypeit) = total
            /\ Len(v.t_pypeit) = total /\ Len(v.npix_pypeit) = total
            /\ \A k \in 1..Len(order) : \A j \in 1..LineCount(full, k) :
                  LET i == LinesBefore(full, k) + j
                  IN  /\ v.all_pix_pypeit[i] = NonZero(full[2 * k - 1])[j]
                      /\ v.all_wv_pypeit[i] = NonZero(full[2 * k])[j]
                      /\ v.t_pypeit[i] = k + 2
                      /\ v.npix_pypeit[i] = LineCount(full, k)
            /\ Range(v.t_pypeit) = 3..8

\* a line list with orders of one line and orders of two was flattened
C26_Witness ==
    /\ Returned("flatten")
    /\ LineCount(call.full, 1) = 1
    /\ LineCount(call.full, 2) = 2
    /\ ret.value.t_pypeit[1] = 3 /\ ret.value.t_pypeit[2] = 4 /\ ret.value.t_pypeit[3] = 4
    /\ ret.value.npix_pypeit[1] = 1 /\ ret.value.npix_pypeit[2] = 2

\* C27: at a pixel of positive transmission the corrected flux is
\* flux/telluric, the corrected inverse variance ivar times telluric squared,
\* and the mask the one passed in; at a pixel of zero transmission the inverse
\* variance is 0, the mask False and the flux the one passed in
C27_Correction ==
    Returned("qso_telluric") =>
        \A i \in 1..Len(call.flux) :
            LET t == call.telluric[i] IN
            /\ t > 0 =>
                  /\ ret.value.flux_corr[i] = [num |-> call.flux[i], den |-> t]
                  /\ ret.value.ivar_corr[i] = call.ivar[i] * t * t
                  /\ ret.value.mask_corr[i] = call.mask[i]
            /\ t = 0 =>
                  /\ ret.value.flux_corr[i] = [num |-> call.flux[i], den |-> 1]
                  /\ ret.value.ivar_corr[i] = 0
                  /\ ret.value.mask_corr[i] = FALSE

\* a spectrum with a good pixel of zero transmission and one of transmission 2
C27_Witness ==
    /\ Returned("qso_telluric")
    /\ call.telluric = <<0, 2>>
    /\ call.mask = <<TRUE, TRUE>>
    /\ call.ivar = <<2, 2>>
    /\ ret.value.ivar_corr = <<0, 8>>
    /\ ret.value.mask_corr = <<FALSE, TRUE>>

TotalSteps == Sum([s \in Setups |-> Len(tests[s])], NSetups)

\* C29: when main has returned no test is active and the passed, failed and
\* skipped tests are as many as the steps of the queued setups: every step was
\* run to completion once or reported skipped once, never both, never neither
C29_EveryStepCounted ==
    (mpc = "done") =>
        /\ num_active = 0
        /\ num_passed + num_failed + num_skipped = TotalSteps
        /\ \A x \in AllSteps :
              LET ran == Cardinality(CallsOf(x[1], x[2], "completed"))
                  skipped == Cardinality(CallsOf(x[1], x[2], "skipped"))
              IN  /\ ran + skipped = 1
                  /\ Cardinality(CallsOf(x[1], x[2], "run")) = ran
                  /\ Cardinality(CallsOf(x[1], x[2], "started")) = ran

\* main has returned from a run of three steps, one passed, one failed and one
\* skipped
C29_Witness ==
    /\ mpc = "done"
    /\ TotalSteps = 3
    /\ num_passed = 1 /\ num_failed = 1 /\ num_skipped = 1

\* C30: testing_complete is True only when every queued setup has been taken,
\* has had each of its steps run or skipped and has been marked done, the queue
\* is empty and no test is active; a worker has left its loop only then
C30_CompleteAfterDrain ==
    /\ testing_complete =>
          /\ \A s \in Setups : SetupDone(s)
          /\ \A x \in AllSteps : Has(x[1], x[2], "completed") \/ Has(x[1], x[2], "skipped")
          /\ test_run_queue = <<>>
          /\ unfinished_tasks = 0
          /\ num_active = 0
          /\ \A w \in Threads : pc[w] \in {"while", "get", "exit"}
    /\ (\E w \in Threads : pc[w] = "exit") => testing_complete

\* the flag is True, one worker has left its loop and another is still to see it,
\* after a run that skipped a step
C30_Witness ==
    /\ testing_complete
    /\ \E w1, w2 \in Threads : pc[w1] = "exit" /\ pc[w2] = "get"
    /\ num_skipped >= 1
    /\ num_passed + num_failed >= 2

\* the first test of the setup is the pypeit_setup test
Generates(s) == Len(tests[s]) > 0 /\ tests[s][1] = "setup"

\* C31: in a setup whose pypeit file is generated by pypeit_setup, a later step
\* is started or run only after the pypeit_setup step has passed and has stored
\* the generated pypeit file and the new output directory on the setup; when the
\* child of the pypeit_setup step did not run, failed or did not leave exactly
\* one pypeit file, the step is failed and the setup keeps its unset pypeit
\* file; no step is run with an unset pypeit file other than pypeit_setup itself.
C31_GeneratedBeforeUse ==
    \A x \in AllSteps :
        LET s == x[1]
            k == x[2]
        IN  /\ (Generates(s) /\ k > 1 /\ (Has(s, k, "started") \/ Has(s, k, "run"))) =>
                  /\ RunReturned(s, 1)
                  /\ steps[s][1].passed = "True"
                  /\ pyp_file[s] = "generated"
                  /\ rdxdir[s] = "out_A"
            /\ (Generates(s) /\ k = 1 /\ RunReturned(s, 1)
                  /\ (steps[s][1].returncode # 0 \/ steps[s][1].found # 1)) =>
                  /\ Failed(s, 1)
                  /\ pyp_file[s] = "None"
                  /\ rdxdir[s] = "out"
            /\ (Has(s, k, "run") /\ tests[s][k] # "setup") => pyp_file[s] # "None"

\* the step after pypeit_setup is running its child with the generated pypeit
\* file, while the pypeit_setup step of the setup has passed
C31_Witness ==
    \E s \in Setups :
        /\ Generates(s)
        /\ Len(tests[s]) > 1
        /\ Has(s, 2, "run") /\ At_(s, 2, {"wait"})
        /\ steps[s][1].found = 1
        /\ pyp_file[s] = "generated"

\* the pypeit_sensfunc step found no standard-star file: its run has returned
\* with the one message of PypeItSensFuncTest.run and without a log file
NoStdFile(s, k) ==
    /\ tests[s][k] = "sens"
    /\ RunReturned(s, k)
    /\ ~steps[s][k].logfile
    /\ steps[s][k].error_msgs = 1

\* the number of entries of q equal to e
Occurrences(q, e) == Cardinality({i \in 1..Len(q) : q[i] = e})

\* test_completed has been called for the step and has returned
Reported(s, k) == Has(s, k, "completed") /\ ~At_(s, k, InTestCompleted)

\* C32: a pypeit_sensfunc step whose standard-star file does not exist spawns no
\* child, ends failed with an error message, is counted once in num_failed and
\* once in failed_tests, and every later step of its setup is skipped and never
\* started, although its run returned None to the worker and not False.
C32_SensFuncMissingFile ==
    \A x \in AllSteps :
        LET s == x[1]
            k == x[2]
        IN  NoStdFile(s, k) =>
              /\ ~steps[s][k].pid /\ ~steps[s][k].command_line
              /\ steps[s][k].returncode = -1
              /\ Failed(s, k)
              /\ \A w \in Threads :
                    (cur[w] = s /\ idx[w] = k /\ pc[w] \in {"completed"} \cup InTestCompleted)
                        => passed[w] = "None"
              /\ Occurrences(failed_tests, <<s, k>>) = IF Reported(s, k) THEN 1 ELSE 0
              /\ Reported(s, k) => num_failed >= 1
              /\ InsideReport = {} => num_failed = Len(failed_tests)
              /\ \A j \in (k + 1)..Len(tests[s]) :
                    /\ ~Has(s, j, "started") /\ ~Has(s, j, "run")
                    /\ SetupDone(s) => Cardinality(CallsOf(s, j, "skipped")) = 1

\* the worker is done with a setup whose pypeit_sensfunc step found no
\* standard-star file: the step is the one failure of the run and the step after
\* it was skipped
C32_Witness ==
    \E x \in AllSteps :
        /\ NoStdFile(x[1], x[2])
        /\ SetupDone(x[1])
        /\ x[2] < Len(tests[x[1]])
        /\ Has(x[1], x[2] + 1, "skipped")
        /\ failed_tests = <<x>>
        /\ num_failed = 1

\* the for loop of thread_target has reached the step: it has a started or a
\* skipped report, or a worker is about to make one
Handled(s, k) ==
    \/ Has(s, k, "started") \/ Has(s, k, "skipped")
    \/ At_(s, k, {"started", "skipped"} \cup InTestStarted \cup InTestSkipped)

\* C33: once main reports, the passed field of a step is None iff the step was
\* skipped and never started, and is True or False iff it was started; at any
\* time a step has one started report at most, a completed report only after a
\* started one, and when the next step of its setup is handled a started step
\* has exactly one completed report, whose call has returned.
C33_PassedFieldAndReports ==
    \A x \in AllSteps :
        LET s == x[1]
            k == x[2]
            nstart == Cardinality(CallsOf(s, k, "started"))
            ncompl == Cardinality(CallsOf(s, k, "completed"))
            nskip == Cardinality(CallsOf(s, k, "skipped"))
        IN  /\ Reporting =>
                  /\ (steps[s][k].passed = "None") <=> (nskip = 1 /\ nstart = 0)
                  /\ (steps[s][k].passed \in {"True", "False"}) <=> (nstart = 1)
                  /\ nstart = ncompl
                  /\ nstart + nskip = 1
            /\ nstart <= 1 /\ ncompl <= nstart
            /\ nskip > 0 => (nstart = 0 /\ steps[s][k].passed = "None")
            /\ (k < Len(tests[s]) /\ nstart = 1 /\ Handled(s, k + 1)) =>
                  /\ ncompl = 1
                  /\ Reported(s, k)
                  /\ steps[s][k].passed \in {"True", "False"}

\* main reports on a run with a skipped step, whose passed field is None, and a
\* started step that failed on an exception raised before its child was spawned
C33_Witness ==
    /\ Reporting
    /\ \E x, y \in AllSteps :
          /\ steps[x[1]][x[2]].passed = "None" /\ Has(x[1], x[2], "skipped")
          /\ Has(y[1], y[2], "started") /\ Has(y[1], y[2], "completed")
          /\ Failed(y[1], y[2]) /\ steps[y[1]][y[2]].error_msgs = 2

\* C34: in every state num_skipped > 0 implies num_failed > 0; so when main
\* reports, the summary banner is the PASSED one (num_tests = num_passed) iff no
\* step failed, and then no step was skipped.
C34_SkippedImpliesFailed ==
    /\ num_skipped > 0 => num_failed > 0
    /\ skipped_tests # <<>> => failed_tests # <<>>
    /\ Reporting =>
          /\ (num_tests = num_passed) <=> (num_failed = 0)
          /\ (num_tests = num_passed) <=> (\A x \in AllSteps : ~Failed(x[1], x[2]))
          /\ (num_tests = num_passed) =>
                /\ num_skipped = 0 /\ skipped_tests = <<>>
                /\ \A x \in AllSteps : ~Has(x[1], x[2], "skipped")

\* a worker has stored the first skip of the run, after the one failure, while a
\* test of another setup is active
C34_Witness ==
    /\ num_skipped = 1 /\ num_failed = 1
    /\ \E w \in Threads : pc[w] = "sk_append"
    /\ num_active = 1

\* the fields of setup s and the result state of its steps
SetupState(s) == <<pyp_file[s], rdxdir[s], steps[s]>>

\* C36: a step that changes the pypeit file or output directory of a setup or
\* the result state of one of its steps is taken by the worker that holds that
\* setup, inside run, changes the step that worker is at and no other, and no
\* other setup; the counters and lists of the TestReport change only in a step
\* of the one worker inside test_started, test_skipped or test_completed, with
\* the lock held, and such a step changes no setup and no test.
C36_WorkerFrame ==
    [][/\ \A s \in Setups :
            SetupState(s)' # SetupState(s) =>
               /\ \E w \in Threads :
                     /\ cur[w] = s
                     /\ pc[w] \in {"run", "wait"}
                     /\ pc'[w] # pc[w]
                     /\ \A k \in 1..Len(tests[s]) :
                           k # idx[w] => steps'[s][k] = steps[s][k]
               /\ \A o \in Setups \ {s} : SetupState(o)' = SetupState(o)
       /\ counterVars' # counterVars =>
               /\ lock
               /\ \E w \in Threads : InsideReport = {w} /\ pc'[w] # pc[w]
               /\ \A s \in Setups : SetupState(s)' = SetupState(s)
      ]_vars

\* a worker has stored the generated pypeit file and the new output directory on
\* its setup while another worker is inside the run of a step of another setup,
\* whose fields are as they were built
C36_Witness ==
    \E w1, w2 \in Threads :
        /\ cur[w1] # 0 /\ cur[w2] # 0 /\ cur[w1] # cur[w2]
        /\ pc[w1] = "completed" /\ pyp_file[cur[w1]] = "generated"
        /\ rdxdir[cur[w1]] = "out_A"
        /\ pc[w2] = "wait"
        /\ pyp_file[cur[w2]] = "template" /\ rdxdir[cur[w2]] = "out"

(* ------------------------------------------------------------------ *)
(* PypeItTest.run, statement by statement: the log file of each test  *)
(* and the child process (test_scripts/pypeit_test.py)                *)
(* ------------------------------------------------------------------ *)
\* the setups queued
NStepSetups == 2
StepSetups == 1..NStepSetups

\* The log suffixes of the tests of a setup, in order: pypeit_setup and
\* run_pypeit for setup 1 (shane_kast_blue, "600" in the name), run_pypeit on
\* the science frames and on the standards for setup 2
LogSuffixes(s) == IF s = 1 THEN <<"setup", "test">> ELSE <<"test", "test">>

\* rdxdir = os.path.join(outputdir, instr, setup_name)
Rdxdir(s) == <<"REDUX_OUT", s>>

\* rdxdir = os.path.join(self.setup.rdxdir, self.setup.instr.lower() + '_A')
RdxdirA(d) == Append(d, "A")

\* os.path.join(rdxdir, '{0}_{1}.{2}.log'), as splitext splits it
LogPath(d, s, log_suffix) == <<<<d, s, log_suffix>>, ".log">>

\* a get_logfile that does not look at the files that exist
get_logfile_plain(d, s, log_suffix, exists) == LogPath(d, s, log_suffix)

\* PypeItTest.get_logfile
get_logfile(d, s, log_suffix, exists) == get_unique_file(LogPath(d, s, log_suffix), exists)

\* The logs an earlier run may have left behind
OldLogs ==
    {LogPath(Rdxdir(1), 1, "setup"), LogPath(RdxdirA(Rdxdir(1)), 1, "test"),
     LogPath(Rdxdir(2), 2, "test"),
     Numbered(splitext(LogPath(Rdxdir(2), 2, "test"))[1], 2, ".log")}

\* PypeItTest.__init__, and what run leaves behind: seen is the set of files
\* that existed when the test was started, terminate counts the calls of
\* child.terminate(), left says how run was left
NewJob == [logfile |-> <<>>, seen |-> {}, child |-> "None", terminate |-> 0,
           passed |-> "None", left |-> ""]

StepInit ==
    /\ disk \in SUBSET OldLogs
    /\ todo = [s \in StepSetups |-> s]
    /\ outdir = [s \in StepSetups |-> Rdxdir(s)]
    /\ job = [s \in StepSetups |-> [k \in 1..Len(LogSuffixes(s)) |-> NewJob]]
    /\ worker = [w \in Threads |-> [pc |-> "get", s |-> 0, k |-> 0, passed |-> TRUE,
                                    exc |-> ""]]
    /\ truncated = {}
    /\ OnlyStep

\* the test the thread is at
JobOf(w) == job[worker[w].s][worker[w].k]

\* test_setup = test_run_queue.get(timeout=2); passed = True
StepGet(w) ==
    /\ worker[w].pc = "get"
    /\ todo # <<>>
    /\ worker' = [worker EXCEPT ![w] = [pc |-> "for", s |-> Head(todo), k |-> 1,
                                        passed |-> TRUE, exc |-> ""]]
    /\ todo' = Tail(todo)
    /\ UNCHANGED <<disk, outdir, job, truncated, otherThanStep>>

\* the for loop is over: test_run_queue.task_done()
StepTaskDone(w) ==
    /\ worker[w].pc = "for"
    /\ worker[w].k > Len(LogSuffixes(worker[w].s))
    /\ worker' = [worker EXCEPT ![w].pc = "get", ![w].s = 0, ![w].k = 0]
    /\ UNCHANGED <<disk, todo, outdir, job, truncated, otherThanStep>>

\* if not passed: test_report.test_skipped(test)
StepSkipped(w) ==
    /\ worker[w].pc = "for"
    /\ worker[w].k <= Len(LogSuffixes(worker[w].s))
    /\ ~worker[w].passed
    /\ worker' = [worker EXCEPT ![w].k = @ + 1]
    /\ UNCHANGED <<disk, todo, outdir, job, truncated, otherThanStep>>

\* else: test_report.test_started(test), and test.run() is entered
StepStarted(w) ==
    /\ worker[w].pc = "for"
    /\ worker[w].k <= Len(LogSuffixes(worker[w].s))
    /\ worker[w].passed
    /\ job' = [job EXCEPT ![worker[w].s][worker[w].k].seen = disk]
    /\ worker' = [worker EXCEPT ![w].pc = "logfile"]
    /\ UNCHANGED <<disk, todo, outdir, truncated, otherThanStep>>

\* child = None; self.logfile = self.get_logfile()
StepLogfile(w) ==
    /\ worker[w].pc = "logfile"
    /\ LET s == worker[w].s
           k == worker[w].k
       IN  job' = [job EXCEPT ![s][k].logfile =
                      get_logfile(outdir[s], s, LogSuffixes(s)[k], disk)]
    /\ worker' = [worker EXCEPT ![w].pc = "open"]
    /\ UNCHANGED <<disk, todo, outdir, truncated, otherThanStep>>

\* with open(self.logfile, "w") as f: the file is created, or emptied when it
\* exists
StepOpen(w) ==
    /\ worker[w].pc = "open"
    /\ truncated' = truncated \cup ({JobOf(w).logfile} \cap disk)
    /\ disk' = disk \cup {JobOf(w).logfile}
    /\ worker' = [worker EXCEPT ![w].pc = "popen"]
    /\ UNCHANGED <<todo, outdir, job, otherThanStep>>

\* self.command_line = ...; child = subprocess.Popen(...): the child is spawned
StepPopen(w) ==
    /\ worker[w].pc = "popen"
    /\ job' = [job EXCEPT ![worker[w].s][worker[w].k].child = "running"]
    /\ worker' = [worker EXCEPT ![w].pc = "wait"]
    /\ UNCHANGED <<disk, todo, outdir, truncated, otherThanStep>>

\* build_command_line or Popen raises an Exception, or the thread is interrupted
\* (a BaseException that is no Exception) before a child is spawned
StepPopenRaises(w) ==
    /\ worker[w].pc = "popen"
    /\ \E e \in {"Exception", "BaseException"} :
          worker' = [worker EXCEPT ![w].pc = "finally", ![w].exc = e]
    /\ UNCHANGED <<disk, todo, outdir, job, truncated, otherThanStep>>

\* child.wait() returns, the child having exited with return code rc;
\* self.passed = (child.returncode == 0)
StepWait(w) ==
    /\ worker[w].pc = "wait"
    /\ \E rc \in {0, 1} :
          job' = [job EXCEPT ![worker[w].s][worker[w].k].child = "exited",
                             ![worker[w].s][worker[w].k].passed = PassedOf(rc)]
    /\ worker' = [worker EXCEPT ![w].pc = "finally"]
    /\ UNCHANGED <<disk, todo, outdir, truncated, otherThanStep>>

\* child.wait() is left by an Exception or by an interruption, the child running
StepInterrupt(w) ==
    /\ worker[w].pc = "wait"
    /\ \E e \in {"Exception", "BaseException"} :
          worker' = [worker EXCEPT ![w].pc = "finally", ![w].exc = e]
    /\ UNCHANGED <<disk, todo, outdir, job, truncated, otherThanStep>>

\* a finally clause that leaves the child alone
TerminateNever(j) == j

\* finally: if child is not None: child.terminate()
Terminate(j) ==
    IF j.child = "None" THEN j
    ELSE [j EXCEPT !.terminate = @ + 1,
                   !.child = IF @ = "running" THEN "terminated" ELSE @]

\* the finally clause, after which the with block is left: to the return
\* statement, to the except clause, or out of run with the interruption
StepFinally(w) ==
    /\ worker[w].pc = "finally"
    /\ LET s == worker[w].s
           k == worker[w].k
           e == worker[w].exc
       IN  /\ job' = [job EXCEPT ![s][k] =
                        [Terminate(@) EXCEPT !.left = IF e = "BaseException" THEN "raise"
                                                      ELSE @]]
           /\ worker' = [worker EXCEPT ![w].pc =
                           CASE e = "" -> "return"
                             [] e = "Exception" -> "except"
                             [] OTHER -> "raised"]
    /\ UNCHANGED <<disk, todo, outdir, truncated, otherThanStep>>

\* except Exception: self.passed = False
StepExcept(w) ==
    /\ worker[w].pc = "except"
    /\ job' = [job EXCEPT ![worker[w].s][worker[w].k].passed = "False"]
    /\ worker' = [worker EXCEPT ![w].pc = "return", ![w].exc = ""]
    /\ UNCHANGED <<disk, todo, outdir, truncated, otherThanStep>>

\* return self.passed, after the glob of PypeItSetupTest.run (n files found) for
\* a pypeit_setup test that passed; thread_target goes on with the next test
StepReturn(w) ==
    /\ worker[w].pc = "return"
    /\ LET s == worker[w].s
           k == worker[w].k
           j == [JobOf(w) EXCEPT !.left = "return"]
       IN  IF LogSuffixes(s)[k] = "setup" /\ j.passed = "True"
           THEN \E n \in {0, 1} :
                  /\ job' = [job EXCEPT ![s][k] =
                               [j EXCEPT !.passed = IF n = 1 THEN "True" ELSE "False"]]
                  /\ outdir' = IF n = 1 THEN SetupStore(outdir, s, RdxdirA(outdir[s]))
                               ELSE outdir
                  /\ worker' = [worker EXCEPT ![w].pc = "for", ![w].k = k + 1,
                                              ![w].passed = (n = 1)]
           ELSE /\ job' = [job EXCEPT ![s][k] = j]
                /\ outdir' = outdir
                /\ worker' = [worker EXCEPT ![w].pc = "for", ![w].k = k + 1,
                                            ![w].passed = (j.passed = "True")]
    /\ UNCHANGED <<disk, todo, truncated, otherThanStep>>

StepGetAny == \E w \in Threads : StepGet(w)
StepTaskDoneAny == \E w \in Threads : StepTaskDone(w)
StepSkippedAny == \E w \in Threads : StepSkipped(w)
StepStartedAny == \E w \in Threads : StepStarted(w)
StepLogfileAny == \E w \in Threads : StepLogfile(w)
StepOpenAny == \E w \in Threads : StepOpen(w)
StepPopenAny == \E w \in Threads : StepPopen(w)
StepPopenRaisesAny == \E w \in Threads : StepPopenRaises(w)
StepWaitAny == \E w \in Threads : StepWait(w)
StepInterruptAny == \E w \in Threads : StepInterrupt(w)
StepFinallyAny == \E w \in Threads : StepFinally(w)
StepExceptAny == \E w \in Threads : StepExcept(w)
StepReturnAny == \E w \in Threads : StepReturn(w)

StepNext ==
    \/ StepGetAny \/ StepTaskDoneAny \/ StepSkippedAny \/ StepStartedAny
    \/ StepLogfileAny \/ StepOpenAny \/ StepPopenAny \/ StepPopenRaisesAny
    \/ StepWaitAny \/ StepInterruptAny \/ StepFinallyAny \/ StepExceptAny
    \/ StepReturnAny

StepSpec == StepInit /\ [][StepNext]_vars

\* the tests of the setups queued
Jobs == {x \in StepSetups \X (1..2) : x[2] <= Len(LogSuffixes(x[1]))}

\* the tests that have been given a log file
Logged == {x \in Jobs : job[x[1]][x[2]].logfile # <<>>}

PastFinally(x) ==
    \/ job[x[1]][x[2]].left # ""
    \/ \E w \in Threads : /\ worker[w].s = x[1] /\ worker[w].k = x[2]
                          /\ worker[w].pc \in {"return", "except", "raised"}

\* C40: when run has left the block in which the child is spawned, by reaching
\* the return statement, through the except clause or with an interruption that
\* propagates out of run, child.terminate() has been called once if a child was
\* spawned, and the child is not running; it is never called for a test that
\* spawned no child, and a child runs only while its thread is inside the block.
C40_ChildTerminated ==
    \A x \in Jobs :
        LET j == job[x[1]][x[2]] IN
          /\ PastFinally(x) =>
                /\ (j.child # "None") => (j.terminate = 1 /\ j.child \in {"exited", "terminated"})
                /\ (j.child = "None") => j.terminate = 0
          /\ (j.child = "None") => j.terminate = 0
          /\ j.terminate <= 1
          /\ (j.child = "running") =>
                \E w \in Threads : /\ worker[w].s = x[1] /\ worker[w].k = x[2]
                                   /\ worker[w].pc \in {"wait", "finally"}

\* run was left in the three ways: with the interruption of a running child,
\* which was terminated; by return after the child exited; and by return after
\* an exception caught before any child was spawned
C40_Witness ==
    \E x, y, z \in Jobs :
        /\ job[x[1]][x[2]].left = "raise" /\ job[x[1]][x[2]].child = "terminated"
        /\ job[y[1]][y[2]].left = "return" /\ job[y[1]][y[2]].child = "exited"
        /\ job[y[1]][y[2]].terminate = 1
        /\ job[z[1]][z[2]].left = "return" /\ job[z[1]][z[2]].child = "None"
        /\ job[z[1]][z[2]].passed = "False"

\* C37: after assign_output for an order, its OBJ_THETA row holds the parameter
\* vector of the order's object model in its leading entries and zeros in the
\* others, up to the largest number of object parameters of any order; the
\* write succeeds also when the order has fewer parameters than that.
C37_ObjThetaRow ==
    Returned("assign_output") =>
        /\ ret.raise = ""
        /\ Len(ret.value) = max_ntheta_obj(call.nbounds)
        /\ \A i \in 1..Len(ret.value) :
              ret.value[i] = IF i <= Len(call.theta_obj) THEN call.theta_obj[i] ELSE 0

\* the four axes of a grid, in the order of the indices
Axes(dict) == <<dict.pressure_grid, dict.temp_grid, dict.h2o_grid, dict.airmass_grid>>

\* each index is inside its axis, and 0 for an axis of length 1
IndicesInGrid ==
    \A i \in 1..4 :
        /\ 0 <= ret.value[i] /\ ret.value[i] <= Len(Axes(call.tell_dict)[i]) - 1
        /\ (Len(Axes(call.tell_dict)[i]) = 1) => ret.value[i] = 0

\* C38: for the telluric guess of the engine (the medians of the pressure,
\* temperature and humidity axes and airmass_guess = 1.5) and for every vector
\* inside the bounds of the telluric optimizer, each of the four grid indices of
\* interp_telluric_grid is in 0..len(axis)-1, and 0 for an axis of length 1.
C38_IndicesInGrid == Returned("grid_index") => IndicesInGrid

\* line k of the template follows a "data read" line
AfterDataRead(t, k) == k > 1 /\ Contains(t[k - 1], "data read")

\* line k of the template is a pixelflat_file line that follows a flatfield line
PixelFlatOfFlatField(t, k) ==
    k > 1 /\ Contains(t[k - 1], "flatfield") /\ Contains(t[k], "pixelflat_file")

====
